---- MODULE Spec2Model ----
(***************************************************************************)
(* flash-board-lib: Board -> Segment -> Element -> Asset.                  *)
(*                                                                         *)
(* The model follows lib/Board.js, lib/Segment.js (src/unnamed/part_005),  *)
(* lib/GeoSegment.js (src/unnamed/part_002), lib/Element.js and            *)
(* lib/Asset.js.  Every public operation is one action; the synchronous    *)
(* event dispatch it triggers (Element 'change' -> Segment 'change' ->     *)
(* Board._change_event_aggregator -> Board 'change') is part of the same   *)
(* action, because node's EventEmitter calls listeners synchronously.      *)
(***************************************************************************)
EXTENDS Integers, Sequences, FiniteSets, TLC

\* ------------------------------------------------------------------ bounds
\* Number of Asset objects the environment can hand to the Board.
NAssets == 3
\* Highest value of the clock (Date.now(), in ticks).
MaxTime == 4
\* Cap on the number of Elements manufactured by Segment.add_asset.
MaxMade == 3
\* Cap on the length of the Board's pending change buffer.
MaxPending == 2
\* Length of the longest elements array whose checksum is compared.
MaxSlots == 2
\* Deepest nesting of an object exported by Asset.toObject().
MaxNesting == 4

\* #min_event_seconds * 1000, in clock ticks.
MinEventTicks == 2

\* ------------------------------------------------------------ the assets
AssetObjs == 1..NAssets

\* asset.id: the last object is a second object carrying the id of object 1
\* (new Asset({id: 'test-asset'}) twice); id 0 stands for the invalid id ''.
AssetId(o) == IF o = NAssets THEN 1 ELSE o

Ids == 0..(NAssets - 1)

\* asset.constructor.name
AssetClass(o) == IF o % 2 = 0 THEN "Truck" ELSE "Asset"

\* asset.position: the base class returns null; a subclass ("Truck") returns
\* a position taken from its notions.
HasPosition(o) == AssetClass(o) = "Truck"

\* ---------------------------------------------------------- the elements
\* An entry of Segment.#elements.  eid is the object identity of the Element
\* (0 for null); asset is the paired Asset object (0 for null); listeners is
\* element.listenerCount('change').
\* Undefined is the value of #cached_summary before the first dirty-check: it
\* is no string, so it differs from every summary.
Undefined == <<"undefined">>

NullElement == [eid |-> 0, static |-> FALSE, cls |-> "null", asset |-> 0,
                cached_summary |-> Undefined, listeners |-> 0]

\* asset.constructor.name.match(this.#asset_class_matcher): class "Element"
\* keeps the default matcher /.+/, class "TruckElement" is a subclass
\* constructed with the matcher 'Truck'.  "BlankElement" is a subclass that
\* keeps the default matcher and overrides `get summary()` to return ''.
Matches(cls, assetClass) ==
    CASE cls = "Element" -> TRUE
      [] cls = "BlankElement" -> TRUE
      [] cls = "TruckElement" -> assetClass = "Truck"
      [] OTHER -> FALSE

\* The Element classes registered with the Board (Board.#classes).
ElementClasses == {"Element", "TruckElement"}

\* Asset.toString(): `${constructor.name}{id=${id}}`, held as the pair of the
\* values it is formatted from.
AssetToString(o) == <<AssetClass(o), AssetId(o)>>

\* Element._asset_type: the class name of the paired asset, else the matcher
\* (which the element class fixes), held as a tagged pair.
_asset_type(e) ==
    IF e.asset # 0 THEN <<"class", AssetClass(e.asset)>> ELSE <<"matcher", e.cls>>

\* Element.toString():
\*   `${constructor.name}{${static?'static ':''}for=${_asset_type} asset=${asset===null?'none':asset.toString()}}`
\* The string is held as the tuple of the values it is formatted from; two
\* such strings are equal exactly when the tuples are.
toString(e) ==
    <<e.cls, e.static, _asset_type(e),
      IF e.asset = 0 THEN <<"none", 0>> ELSE AssetToString(e.asset)>>

\* Element.summary: this.toString() unless a subclass overrides the getter
\* ("Override me!"); the override of "BlankElement" returns the empty string.
Summary(e) == IF e.cls = "BlankElement" THEN <<>> ELSE toString(e)

\* The characters (String.charCodeAt) of a class name.
ClassName(c) ==
    CASE c = "Element" -> <<69, 108, 101, 109, 101, 110, 116>>
      [] c = "TruckElement" -> <<84, 114, 117, 99, 107, 69, 108, 101, 109, 101, 110, 116>>
      [] c = "Asset" -> <<65, 115, 115, 101, 116>>
      [] c = "Truck" -> <<84, 114, 117, 99, 107>>

\* The characters of a summary: the default matcher /.+/ prints as "/.+/",
\* the string matcher 'Truck' as itself, the id i as the digit i.
Chars(str) ==
    IF str = <<>> THEN <<>>
    ELSE
    ClassName(str[1]) \o <<123>>
        \o (IF str[2] THEN <<115, 116, 97, 116, 105, 99, 32>> ELSE <<>>)
        \o <<102, 111, 114, 61>>
        \o (IF str[3][1] = "class" THEN ClassName(str[3][2])
            ELSE IF str[3][2] = "Element" THEN <<47, 46, 43, 47>> ELSE <<84, 114, 117, 99, 107>>)
        \o <<32, 97, 115, 115, 101, 116, 61>>
        \o (IF str[4][1] = "none" THEN <<110, 111, 110, 101>>
            ELSE ClassName(str[4][1]) \o <<123, 105, 100, 61>> \o <<48 + str[4][2]>> \o <<125>>)
        \o <<125>>

\* Variant of dirty that emits without storing the summary it compared.
DirtyNeverCaches(e) ==
    IF e.cached_summary # Summary(e)
    THEN [elem |-> e, change |-> TRUE]
    ELSE [elem |-> e, change |-> FALSE]

\* Element.dirty(): emits 'change' iff the cached summary differs.
dirty(e) ==
    IF e.cached_summary # Summary(e)
    THEN [elem |-> [e EXCEPT !.cached_summary = Summary(e)], change |-> TRUE]
    ELSE [elem |-> e, change |-> FALSE]

\* An event as a listener of the Element gets it: its name, the asset passed
\* with it (0 if none) and element.asset as the listener reads it.
Emitted(name, o, e) == [name |-> name, asset |-> o, seen |-> e.asset]

\* Variant of pair without the check of the existing binding.
PairOverwrites(e, o, test) ==
    IF ~Matches(e.cls, AssetClass(o))
    THEN [ok |-> FALSE, elem |-> e, paired |-> FALSE, change |-> FALSE, emitted |-> <<>>]
    ELSE LET e1 == IF test THEN e ELSE [e EXCEPT !.asset = o]
             d  == dirty(e1)
         IN [ok |-> TRUE, elem |-> d.elem, paired |-> TRUE, change |-> d.change,
             emitted |-> <<Emitted("paired", o, e1)>>
                         \o (IF d.change THEN <<Emitted("change", 0, d.elem)>> ELSE <<>>)]

\* Element.pair(asset, test).  paired: 'paired' was emitted; change: 'change'
\* was emitted by the dirty-check; emitted: the events in order.
pair(e, o, test) ==
    IF e.asset # 0
    THEN [ok |-> FALSE, elem |-> e, paired |-> FALSE, change |-> FALSE, emitted |-> <<>>]
    ELSE IF ~Matches(e.cls, AssetClass(o))
         THEN [ok |-> FALSE, elem |-> e, paired |-> FALSE, change |-> FALSE,
               emitted |-> <<>>]
         ELSE LET e1 == IF test THEN e ELSE [e EXCEPT !.asset = o]
                  d  == dirty(e1)
              IN [ok |-> TRUE, elem |-> d.elem, paired |-> TRUE, change |-> d.change,
                  emitted |-> <<Emitted("paired", o, e1)>>
                              \o (IF d.change THEN <<Emitted("change", 0, d.elem)>>
                                              ELSE <<>>)]

\* Variant of unpair that emits 'unpaired' before it clears the binding.
UnpairEmitsFirst(e) ==
    IF e.asset = 0
    THEN [threw |-> TRUE, elem |-> e, change |-> FALSE, emitted |-> <<>>]
    ELSE LET e1 == [e EXCEPT !.asset = 0]
             d  == dirty(e1)
         IN [threw |-> FALSE, elem |-> d.elem, change |-> d.change,
             emitted |-> <<Emitted("unpaired", e.asset, e)>>
                         \o (IF d.change THEN <<Emitted("change", 0, d.elem)>> ELSE <<>>)]

\* Element.unpair(): throws when there is no asset; else clears #asset, emits
\* 'unpaired' with the former asset, runs the dirty-check.
unpair(e) ==
    IF e.asset = 0
    THEN [threw |-> TRUE, elem |-> e, change |-> FALSE, emitted |-> <<>>]
    ELSE LET e1 == [e EXCEPT !.asset = 0]
             d  == dirty(e1)
         IN [threw |-> FALSE, elem |-> d.elem, change |-> d.change,
             emitted |-> <<Emitted("unpaired", e.asset, e1)>>
                         \o (IF d.change THEN <<Emitted("change", 0, d.elem)>> ELSE <<>>)]

\* new ElementClass(params): not paired, summary not cached yet.
NewElement(eid, cls, static) ==
    [eid |-> eid, static |-> static, cls |-> cls, asset |-> 0,
     cached_summary |-> Undefined, listeners |-> 0]

\* ---------------------------------------------------------- the factory
\* Board.#asset_to_element configurations: a function from the asset class
\* name to the mapped Element class name ("" when the class is not mapped).
\* "MissingElement" is a class name that is not registered in Board.#classes.
NoMapping   == [c \in {"Asset", "Truck"} |-> ""]
TruckMapped == [c \in {"Asset", "Truck"} |-> IF c = "Truck" THEN "TruckElement" ELSE ""]
BadMapping  == [c \in {"Asset", "Truck"} |-> IF c = "Truck" THEN "MissingElement" ELSE "TruckElement"]

\* Variant of element_factory without the dry-run pair.
FactoryUntested(o, eid, map) ==
    LET classname == IF map[AssetClass(o)] # "" THEN map[AssetClass(o)] ELSE "Element"
    IN IF classname \notin ElementClasses
       THEN [ok |-> FALSE, elem |-> NullElement]
       ELSE [ok |-> TRUE, elem |-> NewElement(eid, classname, FALSE)]

\* Board.element_factory(target) with target an Asset: look the class name
\* up (default "Element"), fail if the class is not registered, construct,
\* fail if the dry-run pair is refused.  The dry run goes through
\* Element.pair(target, true), whose dirty-check caches the summary.
element_factory(o, eid, map) ==
    LET classname == IF map[AssetClass(o)] # "" THEN map[AssetClass(o)] ELSE "Element"
    IN IF classname \notin ElementClasses
       THEN [ok |-> FALSE, elem |-> NullElement]
       ELSE LET element == NewElement(eid, classname, FALSE)
                p == pair(element, o, TRUE)
            IN IF ~p.ok THEN [ok |-> FALSE, elem |-> NullElement]
                        ELSE [ok |-> TRUE, elem |-> p.elem]

\* Board.element_factory(classname, {static: true}) as the Segment
\* constructor calls it; process.nextTick has cached the summary.
StaticElement(eid, cls) ==
    LET e == NewElement(eid, cls, TRUE) IN [e EXCEPT !.cached_summary = Summary(e)]

\* ---------------------------------------------------------- the segment
\* this.emit('change', {segment, element, summary, element_index}); elements
\* is the content of #elements at the moment of the emit.
EmptySummary == <<>>

ChangeEvent(e, index, els) ==
    [element |-> e.eid,
     summary |-> IF e.eid = 0 THEN EmptySummary ELSE Summary(e),
     element_index |-> index,
     elements |-> els,
     detached |-> NullElement]

\* element.on('change', ...) as _add_element does it after its emit.
Listen(e) == [e EXCEPT !.listeners = @ + 1]

\* element.removeAllListeners('change')
removeAllListeners(e) == [e EXCEPT !.listeners = 0]

\* The 'change' event of _prune_elements for slot index; detached is the
\* Element object that was in the slot, as the Segment left it.
PruneEvent(e, index, els) ==
    [ChangeEvent(NullElement, index, els) EXCEPT !.detached = e]

\* Segment.find_asset(id): position of the asset with this id, 0 if none.
RECURSIVE FindIndex(_, _, _)
FindIndex(as, id, i) ==
    IF i > Len(as) THEN 0
    ELSE IF AssetId(as[i]) = id THEN i
    ELSE FindIndex(as, id, i + 1)

find_asset(as, id) == FindIndex(as, id, 1)

\* this.#elements.findIndex(e => e === null), 1-based, 0 if none.
RECURSIVE FirstNull(_, _)
FirstNull(els, i) ==
    IF i > Len(els) THEN 0
    ELSE IF els[i].eid = 0 THEN i
    ELSE FirstNull(els, i + 1)

\* Variant of _add_element that always appends.
AddElementAppend(els, element) ==
    LET els1 == Append(els, element)
        index == Len(els1) - 1
    IN [elements |-> [els1 EXCEPT ![index + 1] = Listen(element)],
        events |-> <<ChangeEvent(element, index, els1)>>]

\* Variant of _add_element whose event carries the number of elements added
\* before (the insertion order) instead of the slot.
AddElementInOrder(els, element) ==
    LET n == FirstNull(els, 1)
        els1 == IF n # 0 THEN [els EXCEPT ![n] = element] ELSE Append(els, element)
        index == IF n # 0 THEN n - 1 ELSE Len(els1) - 1
    IN [elements |-> [els1 EXCEPT ![index + 1] = Listen(element)],
        events |-> <<ChangeEvent(element, Len(els1) - 1, els1)>>]

\* Segment._add_element(element): first null slot or append; one 'change',
\* then the Segment listens to the element's 'change'.
_add_element(els, element) ==
    LET n == FirstNull(els, 1)
        els1 == IF n # 0 THEN [els EXCEPT ![n] = element] ELSE Append(els, element)
        index == IF n # 0 THEN n - 1 ELSE Len(els1) - 1
    IN [elements |-> [els1 EXCEPT ![index + 1] = Listen(element)],
        events |-> <<ChangeEvent(element, index, els1)>>]

\* Variant of the loop over the static elements that visits them last to
\* first.
RECURSIVE PairStaticDown(_, _, _)
PairStaticDown(els, o, i) ==
    IF i < 1 THEN [paired |-> FALSE, elements |-> els, events |-> <<>>]
    ELSE IF els[i].eid # 0 /\ els[i].static /\ pair(els[i], o, FALSE).ok
         THEN LET p == pair(els[i], o, FALSE)
                  els1 == [els EXCEPT ![i] = p.elem]
              IN [paired |-> TRUE, elements |-> els1,
                  events |-> IF p.change THEN <<ChangeEvent(p.elem, i - 1, els1)>> ELSE <<>>]
         ELSE PairStaticDown(els, o, i - 1)

PairStaticLastFirst(els, o, i) == PairStaticDown(els, o, Len(els))

\* The loop over the static elements of Segment.add_asset: the first static
\* element whose pair(asset) returns true ends the loop.  The Segment relays
\* the element's 'change' with the index captured by _add_element.
RECURSIVE PairStatic(_, _, _)
PairStatic(els, o, i) ==
    IF i > Len(els) THEN [paired |-> FALSE, elements |-> els, events |-> <<>>]
    ELSE IF els[i].eid # 0 /\ els[i].static /\ pair(els[i], o, FALSE).ok
         THEN LET p == pair(els[i], o, FALSE)
                  els1 == [els EXCEPT ![i] = p.elem]
              IN [paired |-> TRUE, elements |-> els1,
                  events |-> IF p.change THEN <<ChangeEvent(p.elem, i - 1, els1)>> ELSE <<>>]
         ELSE PairStatic(els, o, i + 1)

\* Variant of add_asset without the check of the ids already owned.
AddAssetUnchecked(as, els, o, eid, map) ==
    LET as1 == Append(as, o)
        ps == PairStatic(els, o, 1)
    IN IF ps.paired
       THEN [ret |-> "true", assets |-> as1, elements |-> ps.elements,
             events |-> ps.events, made |-> FALSE]
       ELSE LET f == element_factory(o, eid, map)
            IN IF ~f.ok
               THEN [ret |-> "throw", assets |-> as1, elements |-> els,
                     events |-> <<>>, made |-> TRUE]
               ELSE LET p == pair(f.elem, o, FALSE)
                        a == _add_element(els, p.elem)
                    IN [ret |-> "true", assets |-> as1, elements |-> a.elements,
                        events |-> a.events, made |-> TRUE]

\* Segment.add_asset(asset).
add_asset(as, els, o, eid, map) ==
    IF find_asset(as, AssetId(o)) # 0
    THEN [ret |-> "throw", assets |-> as, elements |-> els, events |-> <<>>, made |-> FALSE]
    ELSE LET as1 == Append(as, o)
             ps == PairStatic(els, o, 1)
         IN IF ps.paired
            THEN [ret |-> "true", assets |-> as1, elements |-> ps.elements,
                  events |-> ps.events, made |-> FALSE]
            ELSE LET f == element_factory(o, eid, map)
                 IN IF ~f.ok
                    THEN [ret |-> "throw", assets |-> as1, elements |-> els,
                          events |-> <<>>, made |-> TRUE]
                    ELSE LET p == pair(f.elem, o, FALSE)
                             a == _add_element(els, p.elem)
                         IN [ret |-> "true", assets |-> as1, elements |-> a.elements,
                             events |-> a.events, made |-> TRUE]

\* Variant of _prune_elements that removes the entry (splice) instead of
\* writing null.
RECURSIVE PruneBySplice(_, _)
PruneBySplice(els, i) ==
    IF i > Len(els) THEN [elements |-> els, events |-> <<>>]
    ELSE IF els[i].eid # 0 /\ ~els[i].static /\ els[i].asset = 0
         THEN LET els1 == [j \in 1..(Len(els) - 1) |-> IF j < i THEN els[j] ELSE els[j + 1]]
                  r == PruneBySplice(els1, i)
              IN [elements |-> r.elements,
                  events |-> <<ChangeEvent(NullElement, i - 1, els1)>> \o r.events]
         ELSE PruneBySplice(els, i + 1)

\* Variant of _prune_elements that prunes static elements too.
RECURSIVE PruneStaticToo(_, _)
PruneStaticToo(els, i) ==
    IF i > Len(els) THEN [elements |-> els, events |-> <<>>]
    ELSE IF els[i].eid # 0 /\ els[i].asset = 0
         THEN LET els1 == [els EXCEPT ![i] = NullElement]
                  r == PruneStaticToo(els1, i + 1)
              IN [elements |-> r.elements,
                  events |-> <<ChangeEvent(NullElement, i - 1, els1)>> \o r.events]
         ELSE PruneStaticToo(els, i + 1)

\* Variant of _prune_elements that leaves the Segment's listener on the
\* Element it drops.
RECURSIVE PruneKeepsListener(_, _)
PruneKeepsListener(els, i) ==
    IF i > Len(els) THEN [elements |-> els, events |-> <<>>]
    ELSE IF els[i].eid # 0 /\ ~els[i].static /\ els[i].asset = 0
         THEN LET els1 == [els EXCEPT ![i] = NullElement]
                  r == PruneKeepsListener(els1, i + 1)
              IN [elements |-> r.elements,
                  events |-> <<PruneEvent(els[i], i - 1, els1)>> \o r.events]
         ELSE PruneKeepsListener(els, i + 1)

\* Segment._prune_elements(): every non-static element without asset loses
\* its 'change' listeners and becomes null, in index order, one 'change' each.
RECURSIVE _prune_elements(_, _)
_prune_elements(els, i) ==
    IF i > Len(els) THEN [elements |-> els, events |-> <<>>]
    ELSE IF els[i].eid # 0 /\ ~els[i].static /\ els[i].asset = 0
         THEN LET els1 == [els EXCEPT ![i] = NullElement]
                  r == _prune_elements(els1, i + 1)
              IN [elements |-> r.elements,
                  events |-> <<PruneEvent(removeAllListeners(els[i]), i - 1, els1)>>
                             \o r.events]
         ELSE _prune_elements(els, i + 1)

\* Variant of the loop of remove_asset that unpairs without pruning.
RECURSIVE UnpairOnly(_, _, _)
UnpairOnly(els, asset, i) ==
    IF i > Len(els) THEN [elements |-> els, events |-> <<>>]
    ELSE IF els[i].eid # 0 /\ els[i].asset = asset
         THEN LET u == unpair(els[i])
                  els1 == [els EXCEPT ![i] = u.elem]
              IN [elements |-> els1,
                  events |-> IF u.change THEN <<ChangeEvent(u.elem, i - 1, els1)>> ELSE <<>>]
         ELSE UnpairOnly(els, asset, i + 1)

\* The loop of Segment.remove_asset over #elements: the first element paired
\* with the removed asset object is unpaired, then the segment is pruned.
RECURSIVE UnpairAndPrune(_, _, _)
UnpairAndPrune(els, asset, i) ==
    IF i > Len(els) THEN [elements |-> els, events |-> <<>>]
    ELSE IF els[i].eid # 0 /\ els[i].asset = asset
         THEN LET u == unpair(els[i])
                  els1 == [els EXCEPT ![i] = u.elem]
                  r == _prune_elements(els1, 1)
              IN [elements |-> r.elements,
                  events |-> (IF u.change THEN <<ChangeEvent(u.elem, i - 1, els1)>> ELSE <<>>)
                             \o r.events]
         ELSE UnpairAndPrune(els, asset, i + 1)

\* this.#assets.splice(index, 1)
Splice(as, index) == [j \in 1..(Len(as) - 1) |-> IF j < index THEN as[j] ELSE as[j + 1]]

\* Variant of remove_asset that unpairs but leaves the asset in #assets.
RemoveKeepsAsset(as, els, id) ==
    IF id = 0 THEN [ret |-> "throw", assets |-> as, elements |-> els, events |-> <<>>]
    ELSE LET index == find_asset(as, id)
         IN IF index = 0
            THEN [ret |-> "false", assets |-> as, elements |-> els, events |-> <<>>]
            ELSE LET r == UnpairAndPrune(els, as[index], 1)
                 IN [ret |-> "true", assets |-> as,
                     elements |-> r.elements, events |-> r.events]

\* Segment.remove_asset(id).  Id 0 is the invalid id.
remove_asset(as, els, id) ==
    IF id = 0 THEN [ret |-> "throw", assets |-> as, elements |-> els, events |-> <<>>]
    ELSE LET index == find_asset(as, id)
         IN IF index = 0
            THEN [ret |-> "false", assets |-> as, elements |-> els, events |-> <<>>]
            ELSE LET r == UnpairAndPrune(els, as[index], 1)
                 IN [ret |-> "true", assets |-> Splice(as, index),
                     elements |-> r.elements, events |-> r.events]

\* --------------------------------------------------------- the checksum
\* 32-bit values are kept as <<high 16 bits, low 16 bits>>.
Word == 65536

\* (hash * 31 + c) & 0xffffffff
Step31(h, c) ==
    LET lo == h[2] * 31 + c
        hi == h[1] * 31 + (lo \div Word)
    IN <<hi % Word, lo % Word>>

\* a ^ b for naturals
RECURSIVE Xor(_, _)
Xor(a, b) ==
    IF a = 0 THEN b
    ELSE IF b = 0 THEN a
    ELSE (((a % 2) + (b % 2)) % 2) + 2 * Xor(a \div 2, b \div 2)

\* the inner loop over the characters of one summary (the hash is bound as a
\* value at every step)
RECURSIVE HashChars(_, _, _)
HashChars(h, item, j) ==
    IF j > Len(item) THEN h
    ELSE CHOOSE r \in {HashChars(h1, item, j + 1) : h1 \in {Step31(h, item[j])}} : TRUE

\* Variant of the round without `hash = hash ^ (i + 1)`.
HashItemNoIndex(h, e, i) ==
    LET item == IF e.eid = 0 THEN <<>> ELSE Chars(Summary(e))
    IN CHOOSE r \in {h1 : h1 \in {IF item = <<>> THEN Step31(h, 0)
                                   ELSE HashChars(h, item, 1)}} : TRUE

\* Variant of the round that hashes the element's cached summary (undefined
\* until the first dirty-check or the constructor's nextTick) instead of
\* calling the getter.
HashItemCached(h, e, i) ==
    LET item == IF e.eid = 0 \/ e.cached_summary = Undefined THEN <<>>
                ELSE Chars(e.cached_summary)
    IN CHOOSE r \in {<<h1[1], Xor(h1[2], i)>> :
                        h1 \in {IF item = <<>> THEN Step31(h, 0) ELSE HashChars(h, item, 1)}} : TRUE

\* one round of the outer loop: arr[i] is null (0 is hashed) or a summary,
\* then hash = hash ^ (i + 1); i is the 1-based position, i.e. index + 1
HashItem(h, e, i) ==
    LET item == IF e.eid = 0 THEN <<>> ELSE Chars(Summary(e))
    IN CHOOSE r \in {<<h1[1], Xor(h1[2], i)>> :
                        h1 \in {IF item = <<>> THEN Step31(h, 0) ELSE HashChars(h, item, 1)}} : TRUE

\* the outer loop of Segment.checksum over arr = elements.map(e => e?.summary || null)
RECURSIVE HashItems(_, _, _)
HashItems(h, els, i) ==
    IF i > Len(els) THEN h
    ELSE CHOOSE r \in {HashItems(h1, els, i + 1) : h1 \in {HashItem(h, els[i], i)}} : TRUE

\* Segment.checksum
checksum(els) == HashItems(<<0, 0>>, els, 1)

\* The same loop with the values as JavaScript holds them.  `&` and `^`
\* convert their operands with ToInt32 and yield an int32, so between the
\* steps hash is a signed value: <<h[1], h[2]>> stands for h[1] * 65536 + h[2]
\* with h[1] in -32768..32767.  hash * 31 + c is below 2^53 in absolute value
\* and is computed exactly.
Half == 32768

\* ToInt32 of hi * 65536 + lo, for lo in 0..65535 and any integer hi
ToInt32(hi, lo) ==
    LET m == hi % Word
    IN <<IF m >= Half THEN m - Word ELSE m, lo>>

\* Variant of `hash >>> 0` that returns the int32 as it is.
KeepInt32(h) == h

\* hash >>> 0
ToUint32(h) == <<h[1] % Word, h[2]>>

\* (hash * 31 + c) & 0xffffffff on an int32 hash
Int32Step31(h, c) ==
    LET lo == h[2] * 31 + c
    IN ToInt32(h[1] * 31 + (lo \div Word), lo % Word)

RECURSIVE Int32HashChars(_, _, _)
Int32HashChars(h, item, j) ==
    IF j > Len(item) THEN h
    ELSE CHOOSE r \in {Int32HashChars(h1, item, j + 1) : h1 \in {Int32Step31(h, item[j])}} : TRUE

\* one round on an int32 hash; i + 1 is below 65536, so the XOR changes the
\* low half only
Int32HashItem(h, e, i) ==
    LET item == IF e.eid = 0 THEN <<>> ELSE Chars(Summary(e))
    IN CHOOSE r \in {<<h1[1], Xor(h1[2], i)>> :
                        h1 \in {IF item = <<>> THEN Int32Step31(h, 0)
                                ELSE Int32HashChars(h, item, 1)}} : TRUE

RECURSIVE Int32HashItems(_, _, _)
Int32HashItems(h, els, i) ==
    IF i > Len(els) THEN h
    ELSE CHOOSE r \in {Int32HashItems(h1, els, i + 1) : h1 \in {Int32HashItem(h, els[i], i)}} : TRUE

\* hash as the loop leaves it, and what the getter returns
Int32Hash(els) == Int32HashItems(<<0, 0>>, els, 1)
Int32Checksum(els) == ToUint32(Int32Hash(els))

\* ------------------------------------------------------------ the board
\* The key `${change.segment_index}-${change.element_index}`.
Key(change) == <<change.segment_index, change.element_index>>

\* Collapse of the buffer: a Map filled with `if (!has(key)) set(key, change)`
\* and read back in insertion order.
RECURSIVE unique_changes(_, _, _)
unique_changes(chs, i, acc) ==
    IF i > Len(chs) THEN acc
    ELSE IF \E j \in 1..Len(acc) : Key(acc[j]) = Key(chs[i])
         THEN unique_changes(chs, i + 1, acc)
         ELSE unique_changes(chs, i + 1, Append(acc, chs[i]))

\* Variant of segment_checksums without the Set: one entry per change.
RECURSIVE SegmentChecksumsPerChange(_, _, _, _)
SegmentChecksumsPerChange(chs, i, acc, els) ==
    IF i > Len(chs) THEN acc
    ELSE SegmentChecksumsPerChange(chs, i + 1,
             Append(acc, [segment_index |-> chs[i].segment_index,
                          checksum |-> checksum(els[chs[i].segment_index + 1])]),
             els)

\* Array.from(new Set(changes.map(c => c.segment_index))).map(index => ({segment_index, checksum}))
RECURSIVE segment_checksums(_, _, _, _)
segment_checksums(chs, i, acc, els) ==
    IF i > Len(chs) THEN acc
    ELSE IF \E j \in 1..Len(acc) : acc[j].segment_index = chs[i].segment_index
         THEN segment_checksums(chs, i + 1, acc, els)
         ELSE segment_checksums(chs, i + 1,
                  Append(acc, [segment_index |-> chs[i].segment_index,
                               checksum |-> checksum(els[chs[i].segment_index + 1])]),
                  els)

\* Variant of the aggregator without the check of the elapsed time.
AggregatorNoLimit(b, event, hasEvent, tnow, els) ==
    LET changes1 == IF hasEvent THEN Append(b.changes, event) ELSE b.changes
    IN IF Len(changes1) = 0
       THEN [b EXCEPT !.changes = changes1, !.last_event_time = tnow]
       ELSE LET u == unique_changes(changes1, 1, <<>>)
            IN [changes |-> <<>>,
                last_event_time |-> tnow,
                notes |-> Append(b.notes,
                           [changes |-> u,
                            segment_checksums |-> segment_checksums(u, 1, <<>>, els)])]

\* Variant of the aggregator that emits only the event it was called with.
AggregatorLatestOnly(b, event, hasEvent, tnow, els) ==
    LET changes1 == IF hasEvent THEN Append(b.changes, event) ELSE b.changes
    IN IF tnow - b.last_event_time < MinEventTicks
       THEN [b EXCEPT !.changes = changes1]
       ELSE IF Len(changes1) = 0
            THEN [b EXCEPT !.changes = changes1, !.last_event_time = tnow]
            ELSE LET u == <<changes1[Len(changes1)]>>
                 IN [changes |-> <<>>,
                     last_event_time |-> tnow,
                     notes |-> Append(b.notes,
                                [changes |-> u,
                                 segment_checksums |-> segment_checksums(u, 1, <<>>, els)])]

\* Variant of the aggregator that leaves the collapsed buffer in place after
\* the emit.
AggregatorNeverClears(b, event, hasEvent, tnow, els) ==
    LET changes1 == IF hasEvent THEN Append(b.changes, event) ELSE b.changes
    IN IF tnow - b.last_event_time < MinEventTicks
       THEN [b EXCEPT !.changes = changes1]
       ELSE IF Len(changes1) = 0
            THEN [b EXCEPT !.changes = changes1, !.last_event_time = tnow]
            ELSE LET u == unique_changes(changes1, 1, <<>>)
                 IN [changes |-> u,
                     last_event_time |-> tnow,
                     notes |-> Append(b.notes,
                                [changes |-> u,
                                 segment_checksums |-> segment_checksums(u, 1, <<>>, els)])]

\* Board._change_event_aggregator(event) at time tnow.  b holds #changes,
\* #last_event_time and the Board 'change' notifications emitted so far in
\* the running operation; els is #elements of every segment at this moment.
_change_event_aggregator(b, event, hasEvent, tnow, els) ==
    LET changes1 == IF hasEvent THEN Append(b.changes, event) ELSE b.changes
    IN IF tnow - b.last_event_time < MinEventTicks
       THEN [b EXCEPT !.changes = changes1]
       ELSE IF Len(changes1) = 0
            THEN [b EXCEPT !.changes = changes1, !.last_event_time = tnow]
            ELSE LET u == unique_changes(changes1, 1, <<>>)
                 IN [changes |-> <<>>,
                     last_event_time |-> tnow,
                     notes |-> Append(b.notes,
                                [changes |-> u,
                                 segment_checksums |-> segment_checksums(u, 1, <<>>, els)])]

\* The listener installed by Board._add_segment on segment number s (1-based;
\* segment_index is s - 1), run for the events of one operation in order.
\* Next to the Board's state, b carries two records of what happened:
\* received, the keys of the events the listener got since the last
\* notification, and windows, for every notification emitted in this
\* operation the keys received since the one before it; and steps, one record
\* for every call of the aggregator in this operation: the buffer before the
\* call, the event, the buffer after it, whether it emitted, and for an
\* emitting call the notification and #elements of every segment at that
\* moment.
RECURSIVE Dispatch(_, _, _, _, _, _)
Dispatch(b, evs, i, s, tnow, els) ==
    IF i > Len(evs) THEN b
    ELSE LET ev == evs[i]
             change == [segment_index |-> s - 1, element_index |-> ev.element_index,
                        element |-> ev.element, summary |-> ev.summary]
             a == _change_event_aggregator(
                      [changes |-> b.changes, last_event_time |-> b.last_event_time,
                       notes |-> b.notes],
                      change, TRUE, tnow, [els EXCEPT ![s] = ev.elements])
             got == b.received \cup {Key(change)}
             snap == [els EXCEPT ![s] = ev.elements]
             b1 == IF Len(a.notes) > Len(b.notes)
                   THEN [changes |-> a.changes, last_event_time |-> a.last_event_time,
                         notes |-> a.notes, received |-> {},
                         windows |-> Append(b.windows, got),
                         steps |-> Append(b.steps,
                                     [before |-> b.changes, event |-> change,
                                      after |-> a.changes, emitted |-> TRUE,
                                      note |-> a.notes[Len(a.notes)],
                                      elements |-> snap])]
                   ELSE [changes |-> a.changes, last_event_time |-> a.last_event_time,
                         notes |-> a.notes, received |-> got, windows |-> b.windows,
                         steps |-> Append(b.steps,
                                     [before |-> b.changes, event |-> change,
                                      after |-> a.changes, emitted |-> FALSE,
                                      note |-> <<>>, elements |-> <<>>])]
         IN Dispatch(b1, evs, i + 1, s, tnow, els)

\* ------------------------------------------------------ Notion and Asset
\* A JavaScript value as Notion and Asset handle it: kind is what typeof and
\* instanceof tell of it, str the string (for a Date and for a dayjs object
\* the time it holds), items the own properties of an object or the entries
\* of an array, in order.
JsValue(kind, str, items) == [kind |-> kind, str |-> str, items |-> items]
Property(key, val) == [key |-> key, val |-> val]
JsUndefined == JsValue("undefined", "", <<>>)
JsNull == JsValue("null", "", <<>>)
Number == JsValue("number", "123", <<>>)
Str(s) == JsValue("string", s, <<>>)
DateOf(t) == JsValue("Date", ToString(t), <<>>)
Dayjs(t) == JsValue("dayjs", ToString(t), <<>>)
Object(props) == JsValue("object", "", props)
Array(vals) ==
    JsValue("array", "", [i \in DOMAIN vals |-> Property(ToString(i - 1), vals[i])])

\* typeof value == 'object'
IsObject(v) == v.kind \in {"null", "object", "array", "Date", "dayjs"}

\* `key in object` for a value that is not null, and object[key].
Has(v, key) == \E i \in DOMAIN v.items : v.items[i].key = key
Get(v, key) == v.items[CHOOSE i \in DOMAIN v.items : v.items[i].key = key].val

\* Depth of nesting of a value.
RECURSIVE Depth(_)
Depth(v) ==
    IF v.items = <<>> THEN 0
    ELSE LET below == {Depth(v.items[i].val) : i \in DOMAIN v.items}
         IN 1 + CHOOSE d \in below : \A x \in below : x <= d

\* The time a Date holds; NoTime for a #timestamp that is undefined.
NoTime == -1
Times == 0..MaxTime

\* dayjs(string).toDate(): the time the string denotes, NoTime when
\* isValid() is false.  date.toISOString() writes it.
ParseTime(str) ==
    IF \E t \in Times : ToString(t) = str
    THEN CHOOSE t \in Times : ToString(t) = str
    ELSE NoTime
toISOString(t) == ToString(t)

\* The branches of Notion.set_value that turn the timestamp argument into a
\* Date (Dates and dayjs objects hold valid times here).
ResolveTimestamp(timestamp) ==
    IF timestamp.kind = "string"
    THEN [threw |-> ParseTime(timestamp.str) = NoTime, date |-> ParseTime(timestamp.str)]
    ELSE IF timestamp.kind \in {"dayjs", "Date"}
         THEN [threw |-> FALSE, date |-> ParseTime(timestamp.str)]
         ELSE [threw |-> TRUE, date |-> NoTime]

\* The setter_mapping argument of the Notion constructor.
NoSetterMapping == [given |-> FALSE, value |-> "", timestamp |-> ""]
SetterMapping(v, t) == [given |-> TRUE, value |-> v, timestamp |-> t]

\* new Notion(name, default_value, setter_mapping)
NewNotion(name, default_value, setter_mapping) ==
    [name |-> name, value |-> JsUndefined, timestamp |-> NoTime,
     default_value |-> default_value, setter_mapping |-> setter_mapping]

\* get value()
Value(n) ==
    IF n.value.kind \in {"undefined", "null"} THEN n.default_value ELSE n.value

\* The outcome of a call that threw before it changed anything.
Threw(n) == [threw |-> TRUE, notion |-> n, emitted |-> <<>>]

\* Variant of set_value that emits 'changed' only when the value stored
\* differs from the one held before, and reports the value read before
\* (default included) as old_value.
SetValueWhenChanged(n, value, timestamp) ==
    LET mapped == n.setter_mapping.given /\ IsObject(value)
    IN IF mapped /\ value.kind = "null" THEN Threw(n)
       ELSE LET v == IF mapped /\ Has(value, n.setter_mapping.value)
                     THEN Get(value, n.setter_mapping.value) ELSE value
                ts == IF mapped /\ Has(value, n.setter_mapping.timestamp)
                      THEN Get(value, n.setter_mapping.timestamp) ELSE timestamp
                r == ResolveTimestamp(ts)
            IN IF r.threw THEN Threw(n)
               ELSE [threw |-> FALSE,
                     notion |-> [n EXCEPT !.value = v, !.timestamp = r.date],
                     emitted |-> IF v = n.value THEN <<>>
                                 ELSE <<[property |-> n.name, old_value |-> Value(n),
                                         new_value |-> v]>>]

\* Notion.set_value(value, timestamp); `key in null` throws a TypeError.
set_value(n, value, timestamp) ==
    LET mapped == n.setter_mapping.given /\ IsObject(value)
    IN IF mapped /\ value.kind = "null" THEN Threw(n)
       ELSE LET v == IF mapped /\ Has(value, n.setter_mapping.value)
                     THEN Get(value, n.setter_mapping.value) ELSE value
                ts == IF mapped /\ Has(value, n.setter_mapping.timestamp)
                      THEN Get(value, n.setter_mapping.timestamp) ELSE timestamp
                r == ResolveTimestamp(ts)
            IN IF r.threw THEN Threw(n)
               ELSE [threw |-> FALSE,
                     notion |-> [n EXCEPT !.value = v, !.timestamp = r.date],
                     emitted |-> <<[property |-> n.name, old_value |-> n.value,
                                    new_value |-> v]>>]

\* set value(value): this.set_value(value, new Date())
SetValue(n, value, tnow) == set_value(n, value, DateOf(tnow))

\* new Asset(properties): one Notion for every property but id, in the order
\* of the properties (the entries of the Map #notions).
NewAsset(properties) ==
    [i \in DOMAIN properties |->
        NewNotion(properties[i].key, properties[i].val, NoSetterMapping)]

\* The place of the name in #notions, 0 when #notions.get(name) is undefined.
NotionIndex(notions, name) ==
    IF \E i \in DOMAIN notions : notions[i].name = name
    THEN CHOOSE i \in DOMAIN notions : notions[i].name = name
    ELSE 0

\* Asset.add_notion(n): #notions.set(n.name, n)
add_notion(notions, n) ==
    IF NotionIndex(notions, n.name) # 0
    THEN [notions EXCEPT ![NotionIndex(notions, n.name)] = n]
    ELSE Append(notions, n)

\* Asset.set_value(name, value, timestamp)
AssetSetValueOf(notions, name, value, timestamp, tnow) ==
    LET i == NotionIndex(notions, name)
    IN IF i = 0 THEN [threw |-> TRUE, notions |-> notions, emitted |-> <<>>]
       ELSE LET w == IF timestamp.kind = "undefined"
                     THEN SetValue(notions[i], value, tnow)
                     ELSE set_value(notions[i], value, timestamp)
            IN [threw |-> w.threw, notions |-> [notions EXCEPT ![i] = w.notion],
                emitted |-> w.emitted]

\* objectpath.has(object, name) and objectpath.get(object, name): the name is
\* split at the dots and followed through own properties.
Path(name) == IF name = "position.lat" THEN <<"position", "lat">> ELSE <<name>>

RECURSIVE PathHas(_, _)
PathHas(v, path) ==
    IF path = <<>> THEN TRUE
    ELSE /\ Has(v, Head(path))
         /\ PathHas(Get(v, Head(path)), Tail(path))

RECURSIVE PathGet(_, _)
PathGet(v, path) ==
    IF path = <<>> THEN v ELSE PathGet(Get(v, Head(path)), Tail(path))

\* Variant of the loop over Object.entries(object) that declares a Notion
\* for a key the Asset does not have.
RECURSIVE WriteEntriesDeclaring(_, _, _, _)
WriteEntriesDeclaring(notions, object, i, tnow) ==
    IF i > Len(object.items) THEN [threw |-> FALSE, notions |-> notions, emitted |-> <<>>]
    ELSE LET name == object.items[i].key
             known == add_notion(notions,
                          IF NotionIndex(notions, name) # 0
                          THEN notions[NotionIndex(notions, name)]
                          ELSE NewNotion(name, JsUndefined, NoSetterMapping))
             w == AssetSetValueOf(known, name, object.items[i].val, JsUndefined, tnow)
         IN IF w.threw THEN w
            ELSE LET rest == WriteEntriesDeclaring(w.notions, object, i + 1, tnow)
                 IN [threw |-> rest.threw, notions |-> rest.notions,
                     emitted |-> w.emitted \o rest.emitted]

\* The loop of set_with_object over Object.entries(object); a write that
\* throws ends the call and keeps the writes made before it.
RECURSIVE WriteEntries(_, _, _, _)
WriteEntries(notions, object, i, tnow) ==
    IF i > Len(object.items) THEN [threw |-> FALSE, notions |-> notions, emitted |-> <<>>]
    ELSE LET name == object.items[i].key
         IN IF NotionIndex(notions, name) = 0
            THEN WriteEntries(notions, object, i + 1, tnow)
            ELSE LET w == AssetSetValueOf(notions, name, object.items[i].val,
                                          JsUndefined, tnow)
                 IN IF w.threw THEN w
                    ELSE LET rest == WriteEntries(w.notions, object, i + 1, tnow)
                         IN [threw |-> rest.threw, notions |-> rest.notions,
                             emitted |-> w.emitted \o rest.emitted]

\* The loop of set_with_object over #notions in reverse deep search.
RECURSIVE WriteNotions(_, _, _, _)
WriteNotions(notions, object, i, tnow) ==
    IF i > Len(notions) THEN [threw |-> FALSE, notions |-> notions, emitted |-> <<>>]
    ELSE LET name == notions[i].name
         IN IF ~PathHas(object, Path(name))
            THEN WriteNotions(notions, object, i + 1, tnow)
            ELSE LET w == AssetSetValueOf(notions, name, PathGet(object, Path(name)),
                                          JsUndefined, tnow)
                 IN IF w.threw THEN w
                    ELSE LET rest == WriteNotions(w.notions, object, i + 1, tnow)
                         IN [threw |-> rest.threw, notions |-> rest.notions,
                             emitted |-> w.emitted \o rest.emitted]

\* Asset.set_with_object(object, reverse_deep_search)
set_with_object(notions, object, reverse_deep_search, tnow) ==
    IF object.kind \notin {"object", "array", "Date", "dayjs"}
    THEN [threw |-> TRUE, notions |-> notions, emitted |-> <<>>]
    ELSE IF reverse_deep_search THEN WriteNotions(notions, object, 1, tnow)
         ELSE WriteEntries(notions, object, 1, tnow)

\* Asset.toObject(): {id, notions: [{name, value, timestamp}, ...]} with an
\* entry for every Notion whose value is not undefined.
RECURSIVE ExportNotions(_, _)
ExportNotions(notions, i) ==
    IF i > Len(notions) THEN <<>>
    ELSE (IF Value(notions[i]).kind = "undefined" THEN <<>>
          ELSE <<Object(<<Property("name", Str(notions[i].name)),
                          Property("value", Value(notions[i])),
                          Property("timestamp",
                                   IF notions[i].timestamp = NoTime THEN JsUndefined
                                   ELSE Str(toISOString(notions[i].timestamp)))>>)>>)
         \o ExportNotions(notions, i + 1)

toObject(id, notions) ==
    Object(<<Property("id", Str(id)),
             Property("notions", Array(ExportNotions(notions, 1)))>>)

\* ------------------------------------------------------------- the state
VARIABLES
    segment_class,     \* class of each entry of Board.#segments (fixed by the config)
    asset_to_element,  \* Board.#asset_to_element (fixed by the config)
    attached,          \* Board._add_segment has subscribed to the segments' 'change'
    assets,            \* Segment.#assets of each segment
    elements,          \* Segment.#elements of each segment
    changes,           \* Board.#changes
    last_event_time,   \* Board.#last_event_time
    now,               \* Date.now()
    next_eid,          \* identity of the next Element object constructed
    op,                \* the operation performed last and its arguments
    ret,               \* its outcome: "true", "false", "throw" ("none" for no call)
    events,            \* the Segment 'change' events emitted during it, in order
    notes,             \* the Board 'change' notifications emitted during it, in order
    emit_time,         \* time of the most recent Board 'change' notification, -1 if none
    received,          \* keys of the Segment events received since that notification
    windows,           \* for each notification in notes: the keys received for it
    burst,             \* the current run of successful add_asset calls
    steps,             \* the calls of the aggregator during the last operation
    nested,            \* the Segment 'change' events that a listener of the Board's
                       \* 'change' caused while it was being notified during it
    probe,             \* two elements arrays and the checksums read from them
    elem,              \* an Element used on its own, its last call and the events of it
    ast                \* an Asset used on its own, its last call, the events of it
                       \* and the names of the Notions written so far

vars == <<segment_class, asset_to_element, attached, assets, elements, changes,
          last_event_time, now, next_eid, op, ret, events, notes, emit_time,
          received, windows, burst, steps, nested, probe, elem, ast>>

\* Board configurations (config.segments, config.asset_to_element).  The first
\* one has the shape of test/data/board.conf: one GeoSegment, then one Segment.
\* The last one has no default Segment: every Segment can refuse an asset.
Configs ==
    { [classes |-> <<"GeoSegment", "Segment">>,
       statics |-> << <<>>, <<"Element", "Element">> >>,
       map |-> NoMapping],
      [classes |-> <<"Segment">>,
       statics |-> << <<>> >>,
       map |-> TruckMapped],
      [classes |-> <<"Segment">>,
       statics |-> << <<"TruckElement">> >>,
       map |-> NoMapping],
      [classes |-> <<"GeoSegment", "GeoSegment">>,
       statics |-> << <<>>, <<>> >>,
       map |-> NoMapping] }

\* A Board whose asset_to_element mapping names a class that is not registered
\* (for "Truck") and a class that refuses the asset's type (for "Asset").
MisconfiguredConfigs ==
    { [classes |-> <<"GeoSegment", "Segment">>,
       statics |-> << <<"TruckElement", "Element">>, <<>> >>,
       map |-> BadMapping] }

\* The indices (1-based) of Board.#segments.
Segs == DOMAIN segment_class
NSegs == Len(segment_class)

\* The Segment constructor: every configured element is created static by the
\* factory and stored with _add_element (no listener is attached to the
\* segment yet, so the Board sees none of these events).
RECURSIVE ConstructElements(_, _, _)
ConstructElements(classes, i, eid) ==
    IF i > Len(classes) THEN <<>>
    ELSE <<Listen(StaticElement(eid, classes[i]))>>
             \o ConstructElements(classes, i + 1, eid + 1)

NoOp == [name |-> "init", seg |-> 0, obj |-> 0, pos |-> {}, id |-> 0, again |-> FALSE]
NoBurst == [adds |-> 0, start |-> 0, emits |-> 0]

\* Number of elements configured for the segments before segment s.
RECURSIVE StaticsBefore(_, _)
StaticsBefore(statics, s) ==
    IF s = 1 THEN 0 ELSE StaticsBefore(statics, s - 1) + Len(statics[s - 1])

\* The state after construction.  With listening the segments were built and
\* added by the Board constructor (Board._add_segment pipes their events to
\* the aggregator); without, they were built with `new Segment(config, board)`
\* and nothing listens to them.
Construct(listening, configs) ==
    \E cfg \in configs :
        /\ segment_class = cfg.classes
        /\ attached = listening
        /\ asset_to_element = cfg.map
        /\ assets = [s \in DOMAIN cfg.classes |-> <<>>]
        /\ elements = [s \in DOMAIN cfg.classes |->
               ConstructElements(cfg.statics[s], 1, 1 + StaticsBefore(cfg.statics, s))]
        /\ changes = <<>>
        /\ last_event_time = 0
        /\ now = MinEventTicks
        /\ next_eid = 1 + StaticsBefore(cfg.statics, Len(cfg.classes) + 1)
        /\ op = NoOp
        /\ ret = "none"
        /\ events = <<>>
        /\ notes = <<>>
        /\ emit_time = -1
        /\ received = {}
        /\ windows = <<>>
        /\ burst = NoBurst
        /\ steps = <<>>
        /\ nested = <<>>

\* No checksum read yet; no Element constructed on its own.
NoProbe == [kind |-> "none", a |-> <<>>, b |-> <<>>, ca |-> <<0, 0>>, cb |-> <<0, 0>>]
NoElem == [e |-> NullElement, ticked |-> TRUE,
           op |-> [name |-> "none", obj |-> 0, test |-> FALSE],
           ret |-> "none", emitted |-> <<>>]

\* No Asset constructed on its own.
NoAsset == [id |-> "", notions |-> <<>>, written |-> {},
            op |-> [name |-> "none", attr |-> "", value |-> JsUndefined,
                    timestamp |-> JsUndefined, object |-> JsUndefined, reverse |-> FALSE],
            ret |-> "none", emitted |-> <<>>]

Init == Construct(TRUE, Configs) /\ probe = NoProbe /\ elem = NoElem /\ ast = NoAsset

\* Every configured segment on its own: `new Segment(config, board)` with the
\* segment's part of config.segments and the Board's asset_to_element.
SegmentConfigs ==
    UNION { { [classes |-> <<cfg.classes[s]>>,
               statics |-> <<cfg.statics[s]>>,
               map |-> cfg.map] : s \in DOMAIN cfg.classes } : cfg \in Configs }

InitSegment == Construct(FALSE, SegmentConfigs) /\ probe = NoProbe /\ elem = NoElem /\ ast = NoAsset

\* Variant of GeoSegment.add_asset that stores the asset before it tests the
\* position.
SegmentAddStoring(s, o, pos, as, els, eid) ==
    IF segment_class[s] = "GeoSegment" /\ s \notin pos
    THEN [ret |-> "false", assets |-> Append(as, o), elements |-> els,
          events |-> <<>>, made |-> FALSE]
    ELSE add_asset(as, els, o, eid, asset_to_element)

\* GeoSegment.add_asset(asset): pos is the set of segments whose boundary
\* contains asset.position (empty when the asset has no valid position);
\* gju.pointInPolygon is the external predicate.  A plain Segment accepts.
SegmentAdd(s, o, pos, as, els, eid) ==
    IF segment_class[s] = "GeoSegment" /\ s \notin pos
    THEN [ret |-> "false", assets |-> as, elements |-> els, events |-> <<>>, made |-> FALSE]
    ELSE add_asset(as, els, o, eid, asset_to_element)

\* Variant of Board.add_asset that offers the asset to the segments last to
\* first.
RECURSIVE BoardAddDown(_, _, _)
BoardAddDown(s, o, pos) ==
    IF s < 1
    THEN [ret |-> "throw", seg |-> 0, assets |-> <<>>, elements |-> <<>>,
          events |-> <<>>, made |-> FALSE]
    ELSE LET r == SegmentAdd(s, o, pos, assets[s], elements[s], next_eid)
         IN IF r.ret = "false" THEN BoardAddDown(s - 1, o, pos)
            ELSE [ret |-> r.ret, seg |-> s, assets |-> r.assets, elements |-> r.elements,
                  events |-> r.events, made |-> r.made]

BoardAddLastFirst(s, o, pos) == BoardAddDown(NSegs, o, pos)

\* Board.add_asset(asset): the first segment that returns true ends the loop;
\* an exception of a segment ends the call.
RECURSIVE board_add_asset(_, _, _)
board_add_asset(s, o, pos) ==
    IF s > NSegs
    THEN [ret |-> "throw", seg |-> 0, assets |-> <<>>, elements |-> <<>>,
          events |-> <<>>, made |-> FALSE]
    ELSE LET r == SegmentAdd(s, o, pos, assets[s], elements[s], next_eid)
         IN IF r.ret = "false" THEN board_add_asset(s + 1, o, pos)
            ELSE [ret |-> r.ret, seg |-> s, assets |-> r.assets, elements |-> r.elements,
                  events |-> r.events, made |-> r.made]

\* Board.find_asset(id): the first segment owning the id, 0 if none.
RECURSIVE board_find_asset(_, _)
board_find_asset(s, id) ==
    IF s > NSegs THEN 0
    ELSE IF find_asset(assets[s], id) # 0 THEN s
    ELSE board_find_asset(s + 1, id)

\* The positions an asset object can report to the GeoSegments.
GeoSegs == {s \in Segs : segment_class[s] = "GeoSegment"}
Positions(o) == IF HasPosition(o) THEN SUBSET GeoSegs ELSE {{}}

\* The events of an operation on segment s, with the segment_index added by
\* the Board's listener, and with what a listener can read at that moment:
\* the segment's #elements, and the Element the Segment has just dropped.
Tagged(evs, s) ==
    [i \in 1..Len(evs) |->
        [segment_index |-> s - 1, element_index |-> evs[i].element_index,
         element |-> evs[i].element, summary |-> evs[i].summary,
         elements |-> evs[i].elements, detached |-> evs[i].detached]]

\* The run of consecutive successful add_asset calls that began when the
\* Board had emitted nothing for min_event_seconds and that all fall within
\* min_event_seconds of the first one: number of calls (a run ends after
\* three), time of the first one, notifications emitted during the run.
BurstAfter(isAdd, emitted) ==
    IF ~isAdd THEN NoBurst
    ELSE IF burst.adds \in {1, 2} /\ now - burst.start < MinEventTicks
         THEN [burst EXCEPT !.adds = @ + 1, !.emits = @ + emitted]
         ELSE IF now - last_event_time >= MinEventTicks
              THEN [adds |-> 1, start |-> now, emits |-> emitted]
              ELSE NoBurst

\* Number of Elements manufactured so far by Segment.add_asset.
StaticCount(els) == Cardinality({i \in DOMAIN els : els[i].static})

RECURSIVE StaticTotal(_)
StaticTotal(s) == IF s = 0 THEN 0 ELSE StaticTotal(s - 1) + StaticCount(elements[s])

Made == next_eid - 1 - StaticTotal(NSegs)

\* Commit of one operation on segment s (0: no segment touched) with result
\* r: the new segment state, and the Board's reaction to the segment's events.
\* op.again records that the call repeats a remove_asset that just returned
\* true, on the same object with the same id.
Commit(name, s, o, pos, id, r) ==
    \E b \in {IF s = 0 \/ ~attached
              THEN [changes |-> changes, last_event_time |-> last_event_time,
                    notes |-> <<>>, received |-> received, windows |-> <<>>,
                    steps |-> <<>>]
              ELSE Dispatch([changes |-> changes, last_event_time |-> last_event_time,
                             notes |-> <<>>, received |-> received, windows |-> <<>>,
                             steps |-> <<>>],
                            r.events, 1, s, now, elements)} :
       /\ Len(b.changes) <= MaxPending
       /\ assets' = IF s = 0 THEN assets ELSE [assets EXCEPT ![s] = r.assets]
       /\ elements' = IF s = 0 THEN elements ELSE [elements EXCEPT ![s] = r.elements]
       /\ changes' = b.changes
       /\ last_event_time' = b.last_event_time
       /\ notes' = b.notes
       /\ received' = b.received
       /\ windows' = b.windows
       /\ steps' = b.steps
       /\ nested' = <<>>
       /\ events' = IF s = 0 THEN <<>> ELSE Tagged(r.events, s)
       /\ emit_time' = IF Len(b.notes) > 0 THEN now ELSE emit_time
       /\ ret' = r.ret
       /\ op' = [name |-> name, seg |-> s, obj |-> o, pos |-> pos, id |-> id,
                 again |-> /\ name = op.name
                           /\ name \in {"seg_remove", "board_remove"}
                           /\ ret = "true"
                           /\ id = op.id
                           /\ name = "seg_remove" => s = op.seg]
       /\ burst' = BurstAfter(name \in {"board_add", "seg_add"} /\ r.ret = "true",
                              Len(b.notes))
       /\ UNCHANGED <<segment_class, asset_to_element, attached, now, probe, elem, ast>>

\* ----------------------------------------------------------- the actions
\* board.add_asset(o)
BoardAddAsset ==
    \E o \in AssetObjs : \E pos \in Positions(o) :
        \E r \in {board_add_asset(1, o, pos)} :
           /\ r.made /\ r.ret = "true" => Made < MaxMade
           /\ next_eid' = IF r.made /\ r.ret = "true" THEN next_eid + 1 ELSE next_eid
           /\ Commit("board_add", r.seg, o, pos, AssetId(o), r)

\* Board.remove_asset(id): the segment found by Board.find_asset removes it.
board_remove_asset(id) ==
    LET s == IF id = 0 THEN 0 ELSE board_find_asset(1, id)
    IN IF s = 0
       THEN [ret |-> IF id = 0 THEN "throw" ELSE "false", seg |-> 0, assets |-> <<>>,
             elements |-> <<>>, events |-> <<>>]
       ELSE LET r == remove_asset(assets[s], elements[s], id)
            IN [ret |-> IF r.ret = "true" THEN "true" ELSE "throw", seg |-> s,
                assets |-> r.assets, elements |-> r.elements, events |-> r.events]

\* board.remove_asset(id)
BoardRemoveAsset ==
    \E id \in Ids :
        \E r \in {board_remove_asset(id)} :
           /\ UNCHANGED next_eid
           /\ Commit("board_remove", r.seg, 0, {}, id, r)

\* board.segments[s].add_asset(o)
SegmentAddAsset ==
    \E s \in Segs : \E o \in AssetObjs : \E pos \in Positions(o) :
        \E r \in {SegmentAdd(s, o, pos, assets[s], elements[s], next_eid)} :
           /\ r.made /\ r.ret = "true" => Made < MaxMade
           /\ next_eid' = IF r.made /\ r.ret = "true" THEN next_eid + 1 ELSE next_eid
           /\ Commit("seg_add", s, o, pos, AssetId(o), r)

\* board.segments[s].remove_asset(id)
SegmentRemoveAsset ==
    \E s \in Segs : \E id \in Ids :
        \E r \in {remove_asset(assets[s], elements[s], id)} :
           /\ UNCHANGED next_eid
           /\ Commit("seg_remove", s, 0, {}, id, r)

\* the clock advances between operations
Tick ==
    /\ now < MaxTime
    /\ now' = now + 1
    /\ UNCHANGED <<segment_class, asset_to_element, attached, assets, elements, changes,
                   last_event_time, next_eid, op, ret, events, notes, emit_time,
                   received, windows, burst, steps, nested, probe, elem, ast>>

Next == BoardAddAsset \/ BoardRemoveAsset \/ SegmentAddAsset \/ SegmentRemoveAsset \/ Tick

Spec == Init /\ [][Next]_vars

\* The Board driven through its own interface only.
NextBoard == BoardAddAsset \/ BoardRemoveAsset \/ Tick

SpecBoard == Init /\ [][NextBoard]_vars

\* board._change_event_aggregator() without an event, as the timer the
\* method is written for would call it.
NoChange == [segment_index |-> -1, element_index |-> -1, element |-> 0,
             summary |-> EmptySummary]

AggregatorCheck ==
    \E a \in {_change_event_aggregator(
                  [changes |-> changes, last_event_time |-> last_event_time,
                   notes |-> <<>>],
                  NoChange, FALSE, now, elements)} :
       /\ attached
       /\ changes' = a.changes
       /\ last_event_time' = a.last_event_time
       /\ notes' = a.notes
       /\ received' = IF Len(a.notes) > 0 THEN {} ELSE received
       /\ windows' = IF Len(a.notes) > 0 THEN <<received>> ELSE <<>>
       /\ steps' = <<[before |-> changes, event |-> NoChange, after |-> a.changes,
                      emitted |-> Len(a.notes) > 0,
                      note |-> IF Len(a.notes) > 0 THEN a.notes[1] ELSE <<>>,
                      elements |-> IF Len(a.notes) > 0 THEN elements ELSE <<>>]>>
       /\ nested' = <<>>
       /\ events' = <<>>
       /\ emit_time' = IF Len(a.notes) > 0 THEN now ELSE emit_time
       /\ ret' = "none"
       /\ op' = [NoOp EXCEPT !.name = "check"]
       /\ burst' = NoBurst
       /\ UNCHANGED <<segment_class, asset_to_element, attached, assets, elements,
                      now, next_eid, probe, elem, ast>>

\* The Board with such calls between the calls of its interface.
NextBoardTimed == BoardAddAsset \/ BoardRemoveAsset \/ AggregatorCheck \/ Tick

SpecBoardTimed == Init /\ [][NextBoardTimed]_vars

\* What a listener of the Board's 'change' does while it is notified: it
\* calls add_asset(o) or remove_asset(id) of segment s.
ListenerCalls ==
    [kind : {"add"}, seg : Segs, obj : AssetObjs, id : {0}]
        \cup [kind : {"remove"}, seg : Segs, obj : {0}, id : Ids \ {0}]

\* The listener's call on the segments as they are while the notification is
\* dispatched.
ListenerCall(c, as, els, eid) ==
    IF c.kind = "add"
    THEN SegmentAdd(c.seg, c.obj, {}, as[c.seg], els[c.seg], eid)
    ELSE [made |-> FALSE] @@ remove_asset(as[c.seg], els[c.seg], c.id)

\* board.once('change', listener); board.add_asset(o), where the call makes
\* the Board notify.  add_asset emits its Segment event last, so the listener
\* runs on the segments as add_asset leaves them.  Its own Segment events
\* reach the aggregator while the emit of line 99 is running: #changes is
\* the collapsed buffer of line 91 and #last_event_time is already now.  When
\* the emit returns, line 105 empties #changes.
BoardAddAssetNotifying ==
    \E o \in AssetObjs : \E pos \in Positions(o) : \E c \in ListenerCalls :
        \E r \in {board_add_asset(1, o, pos)} :
           /\ attached
           /\ r.ret = "true"
           /\ \E b \in {Dispatch([changes |-> changes, last_event_time |-> last_event_time,
                                  notes |-> <<>>, received |-> received, windows |-> <<>>,
                                  steps |-> <<>>],
                                 r.events, 1, r.seg, now, elements)} :
                /\ Len(b.notes) = 1
                /\ b.steps[Len(b.steps)].emitted
                /\ LET as1 == [assets EXCEPT ![r.seg] = r.assets]
                       els1 == [elements EXCEPT ![r.seg] = r.elements]
                       eid1 == IF r.made THEN next_eid + 1 ELSE next_eid
                   IN \E r2 \in {ListenerCall(c, as1, els1, eid1)} :
                        \E n \in {Dispatch([changes |-> b.notes[1].changes,
                                            last_event_time |-> b.last_event_time,
                                            notes |-> <<>>, received |-> {},
                                            windows |-> <<>>, steps |-> <<>>],
                                           r2.events, 1, c.seg, now, els1)} :
                           /\ r2.ret = "true"
                           /\ eid1 + (IF r2.made THEN 1 ELSE 0) - 1 - StaticTotal(NSegs)
                                  <= MaxMade
                           /\ next_eid' = eid1 + (IF r2.made THEN 1 ELSE 0)
                           /\ assets' = [as1 EXCEPT ![c.seg] = r2.assets]
                           /\ elements' = [els1 EXCEPT ![c.seg] = r2.elements]
                           /\ changes' = <<>>
                           /\ last_event_time' = n.last_event_time
                           /\ notes' = b.notes \o n.notes
                           /\ received' = n.received
                           /\ windows' = b.windows \o n.windows
                           /\ steps' = b.steps \o n.steps
                           /\ nested' = Tagged(r2.events, c.seg)
                           /\ events' = Tagged(r.events, r.seg)
                           /\ emit_time' = now
                           /\ ret' = r.ret
                           /\ op' = [name |-> "board_add_notifying", seg |-> r.seg,
                                     obj |-> o, pos |-> pos, id |-> AssetId(o),
                                     again |-> FALSE]
                           /\ burst' = NoBurst
                           /\ UNCHANGED <<segment_class, asset_to_element, attached, now,
                                          probe, elem, ast>>

\* The Board with a listener of its 'change' that calls back into it.
NextBoardNotifying == BoardAddAsset \/ BoardRemoveAsset \/ BoardAddAssetNotifying \/ Tick

SpecBoardNotifying == Init /\ [][NextBoardNotifying]_vars

\* The same Board with the one thing that happens without a caller: the clock
\* runs.  Nothing in Board.js registers a timer (no setInterval, no
\* setTimeout), so no call of the aggregator is scheduled; add_asset and
\* remove_asset are calls of the environment and may stop.
SpecBoardLive == Init /\ [][NextBoard]_vars /\ WF_vars(Tick)

\* Segments used on their own.
NextSegment == SegmentAddAsset \/ SegmentRemoveAsset

SpecSegment == InitSegment /\ [][NextSegment]_vars

\* The segments of a Board whose asset_to_element mapping cannot be served
\* (a class that is not registered, a class that refuses the asset), each
\* built with `new Segment(config, board)` and used directly.
InitMisconfigured ==
    /\ Construct(FALSE, MisconfiguredConfigs)
    /\ probe = NoProbe
    /\ elem = NoElem
    /\ ast = NoAsset

SpecMisconfigured == InitMisconfigured /\ [][NextSegment]_vars

\* ------------------------------------------------- the checksum on its own
\* The state of the Board, which the reads of a checksum leave alone.
board_vars == <<segment_class, asset_to_element, attached, assets, elements, changes,
                last_event_time, now, next_eid, op, ret, events, notes, emit_time,
                received, windows, burst, steps, nested>>

\* A Board configured without segments.
NoSegments == { [classes |-> <<>>, statics |-> <<>>, map |-> NoMapping] }

\* The Element classes of the arrays: the registered ones and the subclass
\* with the overridden summary.
SampleClasses == ElementClasses \cup {"BlankElement"}

\* The assets the Elements of the arrays are paired with: an Asset, a Truck
\* and the second object that carries the id of object 1.
SampleAssets == {1, 2, NAssets}

\* What a slot of Segment.#elements can hold, for the Element object eid:
\* null; a static Element without asset, before and after the constructor's
\* nextTick cached its summary; an Element (static or made by the factory)
\* paired with an asset its class accepts.
Samples(eid) ==
    LET fresh == {NewElement(eid, c, st) : c \in SampleClasses, st \in BOOLEAN}
        idle == {e \in fresh : e.static}
        settled == {[e EXCEPT !.cached_summary = Summary(e)] : e \in idle}
        accepted == {x \in fresh \X SampleAssets : pair(x[1], x[2], FALSE).ok}
        paired == {pair(x[1], x[2], FALSE).elem : x \in accepted}
    IN {NullElement} \cup {Listen(e) : e \in idle \cup settled \cup paired}

\* The shape add_asset and remove_asset keep: the static Elements (stored by
\* the constructor) come first, and no two Elements hold the same asset id.
Shape(a) ==
    /\ \A i \in DOMAIN a : \A j \in DOMAIN a :
           (i < j /\ a[j].eid # 0 /\ a[j].static) => (a[i].eid # 0 /\ a[i].static)
    /\ \A i \in DOMAIN a : \A j \in DOMAIN a :
           (i # j /\ a[i].asset # 0 /\ a[j].asset # 0)
               => AssetId(a[i].asset) # AssetId(a[j].asset)

\* The elements arrays of length n whose Element objects are base + 1 ..
RECURSIVE ArraysOf(_, _)
ArraysOf(n, base) ==
    IF n = 0 THEN {<<>>}
    ELSE {Append(a, e) : a \in ArraysOf(n - 1, base), e \in Samples(base + n)}

SegmentArrays == {a \in UNION {ArraysOf(n, 0) : n \in 0..MaxSlots} : Shape(a)}

\* An entry of arr = elements.map(e => e?.summary || null) as the string it
\* is (its characters), <<-1>> for null.  The empty summary is falsy, so
\* `|| null` turns it into null.
SummaryOrNull(e) ==
    IF e.eid = 0 \/ Chars(Summary(e)) = <<>> THEN <<-1>> ELSE Chars(Summary(e))

\* The arrays of another Segment (Element objects MaxSlots + 1 ..) that give
\* the same sequence of summaries and nulls as a.
RECURSIVE Twins(_, _)
Twins(a, n) ==
    IF n = 0 THEN {<<>>}
    ELSE {Append(t, e) : t \in Twins(a, n - 1),
                         e \in {x \in Samples(MaxSlots + n) :
                                   SummaryOrNull(x) = SummaryOrNull(a[n])}}

InitChecksum ==
    /\ Construct(FALSE, NoSegments)
    /\ probe \in {[NoProbe EXCEPT !.kind = "drawn", !.a = a] : a \in SegmentArrays}
    /\ elem = NoElem /\ ast = NoAsset

\* segmentA.checksum and segmentB.checksum, read from two Segments.
Read(kind, a, b) ==
    [kind |-> kind, a |-> a, b |-> b, ca |-> checksum(a), cb |-> checksum(b)]

\* Two Segments with the same sequence of summaries and nulls.
ChecksumOfTwin ==
    /\ probe.kind = "drawn"
    /\ \E b \in {t \in Twins(probe.a, Len(probe.a)) : Shape(t)} :
          probe' = Read("twin", probe.a, b)
    /\ UNCHANGED <<board_vars, elem, ast>>

\* One Segment before and after _prune_elements wrote null over an Element.
ChecksumAfterPrune ==
    /\ probe.kind = "drawn"
    /\ \E i \in DOMAIN probe.a :
          /\ probe.a[i].eid # 0 /\ ~probe.a[i].static
          /\ probe' = Read("prune", probe.a, [probe.a EXCEPT ![i] = NullElement])
    /\ UNCHANGED <<board_vars, elem, ast>>

\* One Segment before and after _add_element stored an Element in a slot
\* that held null.
ChecksumAfterOccupy ==
    /\ probe.kind = "drawn"
    /\ \E i \in DOMAIN probe.a : \E e \in Samples(2 * MaxSlots + 1) :
          /\ probe.a[i].eid = 0
          /\ e.eid # 0 /\ ~e.static
          /\ Shape([probe.a EXCEPT ![i] = e])
          /\ probe' = Read("occupy", probe.a, [probe.a EXCEPT ![i] = e])
    /\ UNCHANGED <<board_vars, elem, ast>>

NextChecksum == ChecksumOfTwin \/ ChecksumAfterPrune \/ ChecksumAfterOccupy

SpecChecksum == InitChecksum /\ [][NextChecksum]_vars

\* ------------------------------------------------- an Element on its own
\* new ElementClass(params), with and without {static: true}; the summary is
\* cached by the constructor's process.nextTick callback, which has not run.
InitElement ==
    /\ Construct(FALSE, NoSegments)
    /\ probe = NoProbe
    /\ ast = NoAsset
    /\ elem \in {[NoElem EXCEPT !.e = NewElement(1, c, st), !.ticked = FALSE,
                                 !.op.name = "new"] :
                    c \in SampleClasses, st \in BOOLEAN}

\* element.pair(asset) and element.pair(asset, true)
ElementPair ==
    \E o \in AssetObjs : \E test \in BOOLEAN :
        \E p \in {pair(elem.e, o, test)} :
           /\ elem' = [e |-> p.elem, ticked |-> elem.ticked,
                       op |-> [name |-> "pair", obj |-> o, test |-> test],
                       ret |-> IF p.ok THEN "true" ELSE "false",
                       emitted |-> p.emitted]
           /\ UNCHANGED <<board_vars, probe, ast>>

\* element.unpair()
ElementUnpair ==
    \E u \in {unpair(elem.e)} :
       /\ elem' = [e |-> u.elem, ticked |-> elem.ticked,
                   op |-> [name |-> "unpair", obj |-> 0, test |-> FALSE],
                   ret |-> IF u.threw THEN "throw" ELSE "done",
                   emitted |-> u.emitted]
       /\ UNCHANGED <<board_vars, probe, ast>>

\* element.dirty()
ElementDirty ==
    \E r \in {dirty(elem.e)} :
       /\ elem' = [e |-> r.elem, ticked |-> elem.ticked,
                   op |-> [name |-> "dirty", obj |-> 0, test |-> FALSE],
                   ret |-> "done",
                   emitted |-> IF r.change THEN <<Emitted("change", 0, r.elem)>> ELSE <<>>]
       /\ UNCHANGED <<board_vars, probe, ast>>

\* the constructor's process.nextTick callback: this.#cached_summary = this.summary
ElementNextTick ==
    /\ ~elem.ticked
    /\ elem' = [e |-> [elem.e EXCEPT !.cached_summary = Summary(elem.e)],
                ticked |-> TRUE,
                op |-> [name |-> "tick", obj |-> 0, test |-> FALSE],
                ret |-> "done", emitted |-> <<>>]
    /\ UNCHANGED <<board_vars, probe, ast>>

NextElement == ElementPair \/ ElementUnpair \/ ElementDirty \/ ElementNextTick

SpecElement == InitElement /\ [][NextElement]_vars

\* ---------------------------------------------------- an Asset on its own
\* The properties given to `new Asset({id: '1', ...})`; "notions" is also a
\* key of what toObject() returns, "position.lat" a path for the reverse
\* deep search.
AssetProperties ==
    { <<>>,
      <<Property("notions", JsUndefined)>>,
      <<Property("speed", Str("d")), Property("position.lat", JsNull)>> }

\* The values and timestamps the writes are made with: every value with the
\* timestamp omitted and with a valid string, one value with the other
\* timestamps.  Reading holds the keys of the setter_mapping.
Reading == Object(<<Property("v", Str("b")), Property("t", Str(toISOString(0)))>>)
SampleValues == {JsUndefined, JsNull, Str("a"), Reading}
SampleWrites ==
    {<<v, ts>> : v \in SampleValues, ts \in {JsUndefined, Str(toISOString(0))}}
        \cup {<<Str("a"), ts>> : ts \in {Number, Str("invalid-date"), Dayjs(0)}}
        \cup {<<Reading, Number>>}

\* The names and objects the calls are made with.
SampleNames == {"speed", "notions", "position.lat", "reading", "extra"}
SampleObjects ==
    { JsNull, Str("not an object"),
      Object(<<>>),
      Object(<<Property("extra", Str("b")), Property("speed", Str("a"))>>),
      Object(<<Property("notions", JsNull), Property("id", Str("1"))>>),
      Object(<<Property("position", Object(<<Property("lat", Str("a"))>>))>>) }

NoCall == [name |-> "new", attr |-> "", value |-> JsUndefined, timestamp |-> JsUndefined,
           object |-> JsUndefined, reverse |-> FALSE]

InitAsset ==
    /\ Construct(FALSE, NoSegments)
    /\ probe = NoProbe
    /\ elem = NoElem
    /\ ast \in {[NoAsset EXCEPT !.id = "1", !.notions = NewAsset(p), !.op = NoCall] :
                   p \in AssetProperties}

\* The state of the Asset after a call.
Called(call, r) ==
    /\ ast' = [ast EXCEPT !.notions = r.notions, !.op = call,
                          !.ret = IF r.threw THEN "throw" ELSE "done",
                          !.emitted = r.emitted,
                          !.written = @ \cup {r.emitted[k].property : k \in DOMAIN r.emitted}]
    /\ UNCHANGED <<board_vars, probe, elem>>

\* asset.get_notion(name).set_value(value, timestamp)
NotionSetValue ==
    \E i \in DOMAIN ast.notions : \E vt \in SampleWrites :
        \E w \in {set_value(ast.notions[i], vt[1], vt[2])} :
           Called([NoCall EXCEPT !.name = "notion.set_value", !.attr = ast.notions[i].name,
                                 !.value = vt[1], !.timestamp = vt[2]],
                  [threw |-> w.threw, notions |-> [ast.notions EXCEPT ![i] = w.notion],
                   emitted |-> w.emitted])

\* asset.get_notion(name).value = value
NotionAssign ==
    \E i \in DOMAIN ast.notions : \E v \in SampleValues :
        \E w \in {SetValue(ast.notions[i], v, now)} :
           Called([NoCall EXCEPT !.name = "notion.value", !.attr = ast.notions[i].name,
                                 !.value = v],
                  [threw |-> w.threw, notions |-> [ast.notions EXCEPT ![i] = w.notion],
                   emitted |-> w.emitted])

\* asset.set_value(name, value, timestamp)
AssetSetValue ==
    \E name \in SampleNames : \E vt \in SampleWrites :
        \E r \in {AssetSetValueOf(ast.notions, name, vt[1], vt[2], now)} :
           Called([NoCall EXCEPT !.name = "set_value", !.attr = name, !.value = vt[1],
                                 !.timestamp = vt[2]], r)

\* asset.set_with_object(object, reverse_deep_search)
AssetSetWithObject ==
    \E object \in SampleObjects : \E reverse \in BOOLEAN :
        \E r \in {set_with_object(ast.notions, object, reverse, now)} :
           Called([NoCall EXCEPT !.name = "set_with_object", !.object = object,
                                 !.reverse = reverse], r)

\* asset.set_with_object(asset.toObject())
AssetRoundTrip ==
    /\ Depth(toObject(ast.id, ast.notions)) <= MaxNesting
    /\ Called([NoCall EXCEPT !.name = "round_trip",
                             !.object = toObject(ast.id, ast.notions)],
              set_with_object(ast.notions, toObject(ast.id, ast.notions), FALSE, now))

\* asset.add_notion(new Notion('reading', 'd', {value: 'v', timestamp: 't'}))
\* on an Asset declared without properties.
AssetAddNotion ==
    /\ ast.notions = <<>>
    /\ Called([NoCall EXCEPT !.name = "add_notion", !.attr = "reading"],
              [threw |-> FALSE,
               notions |-> add_notion(ast.notions,
                                      NewNotion("reading", Str("d"), SetterMapping("v", "t"))),
               emitted |-> <<>>])

NextAsset == NotionSetValue \/ NotionAssign \/ AssetSetValue \/ AssetSetWithObject
                \/ AssetRoundTrip \/ AssetAddNotion

SpecAsset == InitAsset /\ [][NextAsset]_vars

\* ------------------------------------------- the factory on its own
\* A Board of any configuration, asked for Elements by a caller that then
\* uses the Element it got.
InitFactory ==
    /\ Construct(TRUE, Configs \cup MisconfiguredConfigs)
    /\ probe = NoProbe
    /\ elem = NoElem
    /\ ast = NoAsset

\* element = board.element_factory(asset); the constructor's nextTick
\* callback is pending when the factory returns.
BoardElementFactory ==
    \E o \in AssetObjs :
        \E f \in {element_factory(o, 1, asset_to_element)} :
           /\ elem' = [e |-> f.elem, ticked |-> ~f.ok,
                       op |-> [name |-> "factory", obj |-> o, test |-> TRUE],
                       ret |-> IF f.ok THEN "done" ELSE "throw",
                       emitted |-> <<>>]
           /\ UNCHANGED <<board_vars, probe, ast>>

\* The caller holds an Element.
Handed == elem.e.eid # 0

\* The calls on the Element handed out, and its nextTick callback.
HandedPair == Handed /\ ElementPair
HandedUnpair == Handed /\ ElementUnpair
HandedDirty == Handed /\ ElementDirty
HandedNextTick == Handed /\ ElementNextTick

NextFactory ==
    BoardElementFactory \/ HandedPair \/ HandedUnpair \/ HandedDirty \/ HandedNextTick

SpecFactory == InitFactory /\ [][NextFactory]_vars

TypeOK ==
    /\ now \in MinEventTicks..MaxTime
    /\ \A s \in Segs : Len(assets[s]) <= NAssets
    /\ Made \in 0..MaxMade
    /\ Len(changes) <= MaxPending
    /\ ret \in {"none", "true", "false", "throw"}

\* ------------------------------------------------------------ properties
\* The segments whose #assets holds the asset object o.
Owners(o) == {s \in Segs : \E i \in DOMAIN assets[s] : assets[s][i] = o}

\* The segments owning an asset with the id.
IdOwners(id) == {s \in Segs : find_asset(assets[s], id) # 0}

\* The slots of segment s whose Element is paired with the asset object o.
PairedSlots(s, o) == {i \in DOMAIN elements[s] : elements[s][i].asset = o}

\* C1: immediately after Board.add_asset(r) returned true, exactly one Segment
\* holds r in its assets and exactly one Element of that Segment has
\* asset === r.
C1_AddedAssetOwnedOnce ==
    (op.name = "board_add" /\ ret = "true") =>
        /\ Cardinality(Owners(op.obj)) = 1
        /\ \A s \in Owners(op.obj) : Cardinality(PairedSlots(s, op.obj)) = 1

\* C2: over any sequence of Board.add_asset / Board.remove_asset calls no
\* asset id is owned by two Segments of the Board at the same time.
C2_IdOwnedByOneSegment ==
    \A id \in Ids : Cardinality(IdOwners(id)) <= 1

\* The slots of an elements array holding the Element object eid.
SlotsOf(els, eid) == {i \in DOMAIN els : els[i].eid = eid}

Added(s) ==
    /\ op'.name \in {"seg_add", "board_add"}
    /\ op'.seg = s
    /\ ret' = "true"

\* Such a call manufactured a new Element (the factory's object next_eid).
Manufactured(s) == Added(s) /\ next_eid' = next_eid + 1

\* C4: slot reuse is first-fit: when add_asset manufactures an Element and the
\* array holds a null, the Element is stored at the lowest index holding null
\* and the length is unchanged; when there is no null it is appended.  (On a
\* Segment without static elements add(A); remove(A.id); add(B) so ends with
\* one slot, paired to B.)
C4_FirstFitSlotReuse ==
    [][\A s \in Segs :
          Manufactured(s) =>
              LET n == FirstNull(elements[s], 1)
                  at == IF n # 0 THEN n ELSE Len(elements[s]) + 1
              IN /\ Len(elements'[s]) = IF n # 0 THEN Len(elements[s]) ELSE Len(elements[s]) + 1
                 /\ elements'[s][at].eid = next_eid
                 /\ elements'[s][at].asset = op'.obj
                 /\ \A i \in DOMAIN elements[s] : i # at => elements'[s][i] = elements[s][i]
                 /\ \A i \in DOMAIN elements[s] : i < at => elements[s][i].eid # 0]_vars

\* A manufactured Element was just stored in the lowest of several null
\* slots: the Elements made before it are gone, a null slot remains after it.
C4_Witness ==
    /\ op.name = "seg_add" /\ ret = "true"
    /\ \E i \in DOMAIN elements[op.seg] : \E j \in DOMAIN elements[op.seg] :
          /\ i < j
          /\ elements[op.seg][i].eid = next_eid - 1
          /\ elements[op.seg][i].asset = op.obj
          /\ elements[op.seg][j].eid = 0
          /\ \A k \in 1..(i - 1) : elements[op.seg][k].eid # 0

\* C5: static Elements are never removed: over every call each static Element
\* stays at its index, also while unpaired; once its asset is removed it is
\* unpaired and accepts a later asset of a matching class.
C5_StaticNeverRemoved ==
    [][\A s \in Segs : \A i \in DOMAIN elements[s] :
          elements[s][i].static =>
              /\ elements'[s][i].eid = elements[s][i].eid
              /\ elements'[s][i].static
              /\ (/\ op'.name \in {"seg_remove", "board_remove"}
                  /\ op'.seg = s
                  /\ ret' = "true"
                  /\ elements[s][i].asset # 0
                  /\ find_asset(assets[s], op'.id) # 0
                  /\ elements[s][i].asset = assets[s][find_asset(assets[s], op'.id)])
                 => /\ elements'[s][i].asset = 0
                    /\ \A o \in AssetObjs :
                          Matches(elements'[s][i].cls, AssetClass(o))
                              => pair(elements'[s][i], o, FALSE).ok]_vars

\* A static Element whose asset was just removed: it is still in its slot,
\* unpaired, and the Segment relayed its change.
C5_Witness ==
    /\ op.name = "seg_remove" /\ ret = "true"
    /\ \E i \in DOMAIN elements[op.seg] :
          /\ elements[op.seg][i].static
          /\ elements[op.seg][i].asset = 0
          /\ \E k \in DOMAIN events : events[k].element = elements[op.seg][i].eid

\* C6: after every completed add_asset or remove_asset, every non-null
\* non-static Element of a Segment is paired with an asset the Segment owns.
C6_NonStaticAlwaysPaired ==
    \A s \in Segs : \A i \in DOMAIN elements[s] :
        (elements[s][i].eid # 0 /\ ~elements[s][i].static) =>
            /\ elements[s][i].asset # 0
            /\ elements[s][i].asset \in {assets[s][j] : j \in DOMAIN assets[s]}

\* A remove_asset unpaired a non-static Element and the slot is null now,
\* next to a non-static Element that is still paired.
C6_Witness ==
    /\ op.name = "seg_remove" /\ ret = "true"
    /\ \E k \in DOMAIN events :
          /\ events[k].element = 0
          /\ elements[op.seg][events[k].element_index + 1].eid = 0
    /\ \E i \in DOMAIN elements[op.seg] :
          elements[op.seg][i].eid # 0 /\ ~elements[op.seg][i].static

\* The static Elements of an array that would accept the asset object o.
Willing(els, o) ==
    {i \in DOMAIN els : els[i].eid # 0 /\ els[i].static /\ els[i].asset = 0
                        /\ Matches(els[i].cls, AssetClass(o))}

Min(S) == CHOOSE x \in S : \A y \in S : x <= y

\* C7: pairing precedence: when add_asset succeeds and static Elements are
\* unpaired and match the asset's class, the one with the lowest index pairs,
\* no other Element's binding changes and no Element is manufactured.
C7_LowestStaticPairs ==
    [][\A s \in Segs :
          (Added(s) /\ Willing(elements[s], op'.obj) # {}) =>
              LET m == Min(Willing(elements[s], op'.obj))
              IN /\ elements'[s][m].asset = op'.obj
                 /\ elements'[s][m].eid = elements[s][m].eid
                 /\ Len(elements'[s]) = Len(elements[s])
                 /\ \A i \in DOMAIN elements[s] : i # m => elements'[s][i] = elements[s][i]
                 /\ next_eid' = next_eid]_vars

\* An asset was just paired with the first of two willing static Elements.
C7_Witness ==
    /\ op.name = "seg_add" /\ ret = "true"
    /\ \E i \in DOMAIN elements[op.seg] : \E j \in DOMAIN elements[op.seg] :
          /\ i < j
          /\ elements[op.seg][i].static /\ elements[op.seg][i].asset = op.obj
          /\ j \in Willing(elements[op.seg], op.obj)

\* C8: a remove_asset(id) that returned true followed immediately by
\* remove_asset(id) on the same Segment: the second call returns false,
\* changes neither assets nor elements and emits no event.  (A step that
\* leaves the clock alone is a call.)
C8_RemoveTwice ==
    [][\A s \in Segs : \A id \in Ids \ {0} :
          (/\ op.name = "seg_remove" /\ op.seg = s /\ op.id = id /\ ret = "true"
           /\ op'.name = "seg_remove" /\ op'.seg = s /\ op'.id = id
           /\ now' = now)
          => /\ ret' = "false"
             /\ assets' = assets
             /\ elements' = elements
             /\ events' = <<>>
             /\ notes' = <<>>
             /\ changes' = changes]_vars

\* The second of two such calls has returned false.
C8_Witness ==
    /\ op.name = "seg_remove" /\ op.again
    /\ ret = "false"

C10_NotificationCoversWindow ==
    \A k \in DOMAIN notes :
        \A key \in windows[k] :
            Cardinality({i \in DOMAIN notes[k].changes : Key(notes[k].changes[i]) = key}) = 1

\* A notification for a window in which one key was received more than once
\* and another key as well.
C10_Witness ==
    /\ Len(notes) = 1
    /\ Cardinality(windows[1]) >= 2
    /\ Len(notes[1].changes) = Cardinality(windows[1])
    /\ \E i \in DOMAIN events : \E j \in DOMAIN events :
          i < j /\ Key(events[i]) = Key(events[j])

\* The events the Board's listener received in the window closed by an
\* emitting call of the aggregator, oldest first.
Window(st) == Append(st.before, st.event)

\* The position in a window of the most recently received event with the key.
LastOf(w, key) ==
    CHOOSE j \in DOMAIN w :
        /\ Key(w[j]) = key
        /\ \A k \in DOMAIN w : Key(w[k]) = key => k <= j

\* C11: de-duplication is last-write-wins: the entry a notification holds for
\* a key is the most recently received event of its window with that key.
C11_LastWriteWins ==
    \A k \in DOMAIN steps :
        steps[k].emitted =>
            \A i \in DOMAIN steps[k].note.changes :
                LET c == steps[k].note.changes[i]
                IN c = Window(steps[k])[LastOf(Window(steps[k]), Key(c))]

\* C12: eventual flush: every change that is buffered is eventually delivered
\* in a notification, also when no further Segment event arrives; the pending
\* buffer does not stay non-empty forever.
C12_EventualFlush == (Len(changes) > 0) ~> (Len(changes) = 0)

\* s is a prefix of t.
Prefix(s, t) == Len(s) <= Len(t) /\ \A i \in DOMAIN s : s[i] = t[i]

\* C13: the pending buffer is cleared only by an emission: a call of the
\* aggregator that emits nothing leaves the buffered changes in place (and
\* appends its event), after a call that emits the buffer is empty, and an
\* operation during which nothing is emitted keeps what was buffered.
C13_ClearedOnlyOnEmit ==
    [][/\ (now' = now /\ Len(notes') = 0) => Prefix(changes, changes')
       /\ \A k \in DOMAIN steps' :
             IF steps'[k].emitted
             THEN steps'[k].after = <<>>
             ELSE steps'[k].after = Append(steps'[k].before, steps'[k].event)]_vars

\* An operation whose first event flushed a non-empty buffer and whose second
\* event was buffered again.
C13_Witness ==
    /\ Len(steps) >= 2
    /\ steps[1].emitted /\ Len(steps[1].before) >= 1 /\ steps[1].after = <<>>
    /\ ~steps[2].emitted /\ steps[2].after = <<steps[2].event>>
    /\ changes = steps[2].after

\* C14: segment_checksums of a notification holds exactly one entry for each
\* segment index occurring in its changes and none for any other segment, and
\* each entry is the checksum of that Segment's elements at the emit.
C14_ChecksumPerChangedSegment ==
    \A k \in DOMAIN steps :
        steps[k].emitted =>
            LET n == steps[k].note
                sc == n.segment_checksums
            IN /\ {sc[i].segment_index : i \in DOMAIN sc}
                      = {n.changes[i].segment_index : i \in DOMAIN n.changes}
               /\ \A i \in DOMAIN sc : \A j \in DOMAIN sc :
                      sc[i].segment_index = sc[j].segment_index => i = j
               /\ \A i \in DOMAIN sc :
                      sc[i].checksum = checksum(steps[k].elements[sc[i].segment_index + 1])

\* A notification with changes of two segments, two of them of one segment,
\* emitted in the middle of a remove_asset: the checksum it carries is of the
\* elements before the prune.
C14_Witness ==
    \E k \in DOMAIN steps :
        /\ steps[k].emitted
        /\ Len(steps[k].note.segment_checksums) = 2
        /\ Len(steps[k].note.changes) >= 3
        /\ k < Len(steps)
        /\ steps[k].elements # elements

\* C15: checksum determinism: two Segments whose elements give the same
\* sequence of (summary, or null for a vacant slot) have the same checksum,
\* whatever else differs between their Elements; reading it changes nothing.
C15_ChecksumDeterministic ==
    [][probe'.kind = "twin" =>
          /\ probe'.ca = probe'.cb
          /\ probe'.a = probe.a
          /\ UNCHANGED <<board_vars, elem, ast>>]_vars

\* Two arrays of different Element objects with the same summaries, one of
\* them with a summary that is not cached yet.
C15_Witness ==
    /\ probe.kind = "twin"
    /\ Len(probe.a) = MaxSlots
    /\ \E i \in DOMAIN probe.a :
          /\ probe.a[i].eid # 0
          /\ probe.a[i].cached_summary # probe.b[i].cached_summary
    /\ \E i \in DOMAIN probe.a : probe.a[i].asset # 0 /\ probe.a[i].asset # probe.b[i].asset
    /\ probe.ca = probe.cb

\* C16: checksum content-sensitivity: writing null over a non-null Element
\* changes the Segment's checksum, and so does storing an Element in a slot
\* that held null, for every summary string the Element may return.
C16_ChecksumContentSensitive ==
    probe.kind \in {"prune", "occupy"} => probe.ca # probe.cb

\* Every slot of the array is null, and there is at least one.
AllNull(els) == Len(els) >= 1 /\ \A i \in DOMAIN els : els[i].eid = 0

\* C17: the checksum of a Segment whose elements are all null after its
\* assets were added (to manufactured Elements) and all removed differs from
\* the checksum of a Segment that never held an element (elements = []).
C17_AllNullDiffersFromEmpty ==
    \A s \in Segs : AllNull(elements[s]) => checksum(elements[s]) # checksum(<<>>)

\* The last of several assets was just removed: elements = [null, null].
C17_Witness ==
    /\ op.name = "seg_remove" /\ ret = "true"
    /\ AllNull(elements[op.seg])
    /\ Len(elements[op.seg]) >= 2
    /\ assets[op.seg] = <<>>

\* The names of the events of the Element's last call.
EmittedNames(el) == {el.emitted[k].name : k \in DOMAIN el.emitted}

\* C18: Element.pair fails closed: when the Element is already paired, or the
\* asset's class name does not match asset_class_matcher, pair returns false
\* (it does not throw), the Element's asset is unchanged and neither 'paired'
\* nor 'change' is emitted.
C18_PairFailsClosed ==
    [][(/\ elem'.op.name = "pair"
        /\ \/ elem.e.asset # 0
           \/ ~Matches(elem.e.cls, AssetClass(elem'.op.obj)))
       => /\ elem'.ret = "false"
          /\ elem'.e.asset = elem.e.asset
          /\ EmittedNames(elem') \cap {"paired", "change"} = {}]_vars

\* A paired Element just refused another asset of a class it matches.
C18_Witness ==
    /\ elem.op.name = "pair" /\ ~elem.op.test
    /\ elem.ret = "false"
    /\ elem.e.asset # 0 /\ elem.e.asset # elem.op.obj
    /\ Matches(elem.e.cls, AssetClass(elem.op.obj))

\* C19: a dry-run pair (pair(asset, true)) only tests acceptance: it returns
\* what a real pair would return, leaves the Element's asset unchanged and
\* emits no 'paired' event.
C19_DryRunOnlyTests ==
    [][(elem'.op.name = "pair" /\ elem'.op.test)
       => /\ elem'.ret = IF pair(elem.e, elem'.op.obj, FALSE).ok THEN "true" ELSE "false"
          /\ elem'.e.asset = elem.e.asset
          /\ "paired" \notin EmittedNames(elem')]_vars

\* C20: Element.unpair on an unpaired Element throws, changes nothing and
\* emits nothing; on a paired Element it clears the binding, then emits
\* 'unpaired' with the former asset (the listener reads element.asset ===
\* null), then runs the dirty-check.
C20_UnpairOrder ==
    [][elem'.op.name = "unpair"
       => IF elem.e.asset = 0
          THEN /\ elem'.ret = "throw"
               /\ elem'.e = elem.e
               /\ elem'.emitted = <<>>
          ELSE /\ elem'.ret = "done"
               /\ elem'.e.asset = 0
               /\ Len(elem'.emitted) >= 1
               /\ elem'.emitted[1] = [name |-> "unpaired", asset |-> elem.e.asset, seen |-> 0]
               /\ elem'.e.cached_summary = Summary(elem'.e)
               /\ IF elem.e.cached_summary # Summary(elem'.e)
                  THEN /\ Len(elem'.emitted) = 2
                       /\ elem'.emitted[2] = [name |-> "change", asset |-> 0, seen |-> 0]
                  ELSE Len(elem'.emitted) = 1]_vars

\* A paired Element was just unpaired: 'unpaired', then 'change'.
C20_Witness ==
    /\ elem.op.name = "unpair" /\ elem.ret = "done"
    /\ Len(elem.emitted) = 2
    /\ elem.emitted[1].name = "unpaired" /\ elem.emitted[1].asset # 0
    /\ elem.e.asset = 0


\* The number of 'change' events among the events of the Element's last call.
Changes(el) == Cardinality({i \in DOMAIN el.emitted : el.emitted[i].name = "change"})

\* C21: dirty() emits 'change' exactly when the summary differs from the
\* cached one and leaves the cache equal to the summary; a second dirty()
\* right after it emits nothing; every pair that binds an asset and every
\* unpair of an Element with the default summary emits exactly one 'change'.
C21_DirtyEmitsOnDifference ==
    [][/\ elem'.op.name = "dirty" =>
            /\ (Changes(elem') = 1) = (elem.e.cached_summary # Summary(elem.e))
            /\ Changes(elem') = Len(elem'.emitted)
            /\ elem'.e.cached_summary = Summary(elem'.e)
            /\ elem'.e.asset = elem.e.asset
       /\ (elem'.op.name = "dirty" /\ elem.op.name = "dirty") => elem'.emitted = <<>>
       /\ (elem'.op.name = "pair" /\ ~elem'.op.test /\ elem'.ret = "true"
              /\ elem.e.cls \in ElementClasses) =>
            /\ Changes(elem') = 1
            /\ elem'.e.cached_summary = Summary(elem'.e)
       /\ (elem'.op.name = "unpair" /\ elem'.ret = "done"
              /\ elem.e.cls \in ElementClasses) =>
            /\ Changes(elem') = 1
            /\ elem'.e.cached_summary = Summary(elem'.e)]_vars

\* A pair that binds an asset after the constructor's callback has cached
\* the summary of the unpaired Element.
C21_Witness ==
    /\ elem.op.name = "pair" /\ ~elem.op.test /\ elem.ret = "true"
    /\ elem.ticked
    /\ elem.e.cls = "Element"
    /\ Changes(elem) = 1


\* C22: when the base Segment.add_asset runs (the call did not end with the
\* `false` of a GeoSegment's position test) for an asset whose id the Segment
\* already owns, it throws, no Segment's assets or elements change and no
\* event is emitted; in Board.add_asset the throw ends the call: the Board
\* throws too and no later Segment takes the asset.  (The clock stands still
\* during a call.)
C22_DuplicateIdThrows ==
    [][(/\ now' = now
        /\ op'.name \in {"seg_add", "board_add"}
        /\ op'.seg # 0
        /\ ret' # "false"
        /\ find_asset(assets[op'.seg], op'.id) # 0) =>
            /\ ret' = "throw"
            /\ assets' = assets
            /\ elements' = elements
            /\ events' = <<>>
            /\ notes' = <<>>
            /\ changes' = changes]_vars

\* Board.add_asset that threw for a duplicate id in the second Segment, after
\* the first one (a GeoSegment) had returned false.
C22_Witness ==
    /\ op.name = "board_add"
    /\ ret = "throw"
    /\ op.seg = 2
    /\ find_asset(assets[2], op.id) # 0


\* The Segments whose add_asset does not return false for an asset at the
\* positions pos: the plain ones and the GeoSegments whose boundary holds it.
Offered(pos) == {s \in Segs : segment_class[s] # "GeoSegment" \/ s \in pos}

\* The first of them in configured order, 0 if there is none.
FirstOffered(pos) ==
    IF Offered(pos) = {} THEN 0
    ELSE CHOOSE s \in Offered(pos) : \A t \in Offered(pos) : s <= t

\* C23: Board.add_asset that returns true has stored the asset in the first
\* Segment in configured order whose add_asset did not return false, and the
\* state of every other Segment is unchanged; when every Segment returns
\* false it throws and no Segment's assets or elements change.
C23_FirstAcceptingSegment ==
    [][(now' = now /\ op'.name = "board_add") =>
          /\ ret' = "true" =>
                /\ op'.seg = FirstOffered(op'.pos)
                /\ op'.seg # 0
                /\ find_asset(assets'[op'.seg], op'.id) # 0
                /\ \A s \in Segs \ {op'.seg} :
                       assets'[s] = assets[s] /\ elements'[s] = elements[s]
          /\ FirstOffered(op'.pos) = 0 =>
                /\ ret' = "throw"
                /\ assets' = assets
                /\ elements' = elements
                /\ events' = <<>>]_vars

\* The first Segment (a GeoSegment that holds assets) returned false and the
\* second one took the asset.
C23_Witness ==
    /\ op.name = "board_add" /\ ret = "true"
    /\ op.seg = 2
    /\ Len(assets[1]) > 0

\* Board.add_asset that threw because every Segment returned false.
C23_WitnessNone ==
    /\ op.name = "board_add" /\ ret = "throw"
    /\ op.seg = 0
    /\ NSegs = 2


Seen(els) == [i \in DOMAIN els |-> <<els[i].eid, els[i].asset>>]

\* C25: every Segment 'change' event of add_asset or remove_asset reaches its
\* listeners with the Segment's elements as they are when the call returns;
\* in particular with no non-static Element that is unpaired and still in
\* its slot.
C25_MutationBeforeDispatch ==
    \A k \in DOMAIN events :
        /\ Seen(events[k].elements) = Seen(elements[events[k].segment_index + 1])
        /\ \A i \in DOMAIN events[k].elements :
               LET e == events[k].elements[i]
               IN ~(e.eid # 0 /\ ~e.static /\ e.asset = 0)

\* The calls that write one Notion: notion.set_value(value, timestamp),
\* notion.value = value and asset.set_value(name, value, timestamp).
SingleWrites == {"notion.set_value", "notion.value", "set_value"}

\* The Notion of the Asset with the name (declared without setter_mapping).
Declared(a, name) ==
    /\ NotionIndex(a.notions, name) # 0
    /\ ~a.notions[NotionIndex(a.notions, name)].setter_mapping.given
NotionOf(a, name) == a.notions[NotionIndex(a.notions, name)]

\* The Date a write stores for the timestamp given: the current time when it
\* is omitted.
ResolvedTime(timestamp) ==
    IF timestamp.kind = "undefined" THEN now ELSE ParseTime(timestamp.str)

\* C26: a Notion's value reads as its default and its timestamp as undefined
\* until the first successful write; after a successful write of v (null and
\* undefined included) value reads as v and timestamp as the resolved
\* timestamp.
C26_NotionReadWrite ==
    [][/\ \A i \in DOMAIN ast'.notions :
             ast'.notions[i].name \notin ast'.written =>
                 /\ Value(ast'.notions[i]) = ast'.notions[i].default_value
                 /\ ast'.notions[i].timestamp = NoTime
       /\ (ast'.op.name \in SingleWrites /\ ast'.ret = "done"
              /\ Declared(ast', ast'.op.attr)) =>
                 /\ Value(NotionOf(ast', ast'.op.attr)) = ast'.op.value
                 /\ NotionOf(ast', ast'.op.attr).timestamp
                        = ResolvedTime(ast'.op.timestamp)]_vars

\* A timestamp argument that is given and is no Date, no dayjs object and no
\* string that parses to a date.
NotDateLike(timestamp) ==
    /\ timestamp.kind \notin {"undefined", "Date", "dayjs"}
    /\ ~(timestamp.kind = "string" /\ \E t \in Times : toISOString(t) = timestamp.str)

\* C27: a write of a Notion with a timestamp that is neither date-like nor
\* omitted fails, leaves value and timestamp as they were and emits no
\* 'changed'; a write without timestamp succeeds and stores the current time,
\* through Notion.set_value as well as through Asset.set_value.
C27_TimestampChecked ==
    [][(ast'.op.name \in {"notion.set_value", "set_value"}
          /\ Declared(ast, ast'.op.attr)) =>
            /\ NotDateLike(ast'.op.timestamp) =>
                  /\ ast'.ret = "throw"
                  /\ ast'.notions = ast.notions
                  /\ ast'.emitted = <<>>
            /\ ast'.op.timestamp.kind = "undefined" =>
                  /\ ast'.ret = "done"
                  /\ NotionOf(ast', ast'.op.attr).timestamp = now]_vars

\* C28: a.set_with_object(a.toObject()) leaves the value of every declared
\* attribute as it was, whatever the declared names are (a name that is a
\* key of the exported object, such as "notions", included).
C28_RoundTrip ==
    [][ast'.op.name = "round_trip" =>
          /\ Len(ast'.notions) = Len(ast.notions)
          /\ \A i \in DOMAIN ast.notions :
                Value(ast'.notions[i]) = Value(ast.notions[i])]_vars

\* The names of the Notions of an Asset, in the order of #notions.
Names(a) == [i \in DOMAIN a.notions |-> a.notions[i].name]

\* The calls of set_with_object in default mode with an object.
DefaultBulk(a) ==
    /\ a.op.name \in {"set_with_object", "round_trip"}
    /\ ~a.op.reverse
    /\ a.op.object.kind = "object"

\* C29: Asset.set_value with a name that was not declared throws and changes
\* no Notion; Asset.set_with_object in default mode writes exactly the
\* declared attributes that are top-level keys of the object, leaves value
\* and timestamp of every other declared attribute as they were and declares
\* no attribute for the other keys.
C29_OnlyDeclaredWritten ==
    [][/\ (ast'.op.name = "set_value" /\ NotionIndex(ast.notions, ast'.op.attr) = 0) =>
             /\ ast'.ret = "throw"
             /\ ast'.notions = ast.notions
             /\ ast'.emitted = <<>>
       /\ DefaultBulk(ast') =>
             /\ ast'.ret = "done"
             /\ Names(ast') = Names(ast)
             /\ {ast'.emitted[k].property : k \in DOMAIN ast'.emitted}
                   = {ast.notions[i].name : i \in {j \in DOMAIN ast.notions :
                                                     Has(ast'.op.object, ast.notions[j].name)}}
             /\ \A i \in DOMAIN ast.notions :
                   IF Has(ast'.op.object, ast.notions[i].name)
                   THEN /\ ast'.notions[i].value = Get(ast'.op.object, ast.notions[i].name)
                        /\ ast'.notions[i].timestamp = now
                   ELSE ast'.notions[i] = ast.notions[i]]_vars

\* set_with_object wrote "speed", skipped the key "extra" and left
\* "position.lat", written before, alone.
C29_Witness ==
    /\ DefaultBulk(ast)
    /\ Has(ast.op.object, "extra")
    /\ Names(ast) = <<"speed", "position.lat">>
    /\ ast.written = {"speed", "position.lat"}
    /\ ast.notions[1].value = Str("a")
    /\ ast.notions[2].timestamp = 0
    /\ Len(ast.emitted) = 1

\* The segments of the arrays as that own an asset with the id: Board.find_asset(id)
\* returns null when there is none.
OwnersIn(as, id) == {s \in DOMAIN as : find_asset(as[s], id) # 0}

\* The slots <<segment, index>> of the arrays els whose Element is paired with
\* an asset of the id.
PairedWithId(els, id) ==
    {x \in UNION {{<<s, i>> : i \in DOMAIN els[s]} : s \in DOMAIN els} :
        /\ els[x[1]][x[2]].asset # 0
        /\ AssetId(els[x[1]][x[2]].asset) = id}

\* C30: Board.remove_asset(id) returns false and changes nothing when no
\* Segment owns the id; when it returns true the asset was removed from the
\* first Segment that owned it, Board.find_asset(id) returns null afterwards
\* and no Element of any Segment is still paired with the removed asset.
C30_BoardRemove ==
    [][(op'.name = "board_remove" /\ now' = now /\ op'.id # 0) =>
          /\ OwnersIn(assets, op'.id) = {} =>
                /\ ret' = "false"
                /\ assets' = assets /\ elements' = elements
                /\ changes' = changes /\ events' = <<>> /\ notes' = <<>>
          /\ ret' = "true" =>
                /\ OwnersIn(assets, op'.id) # {}
                /\ op'.seg = Min(OwnersIn(assets, op'.id))
                /\ Len(assets'[op'.seg]) = Len(assets[op'.seg]) - 1
                /\ \A s \in Segs \ {op'.seg} : assets'[s] = assets[s]
                /\ OwnersIn(assets', op'.id) = {}
                /\ PairedWithId(elements', op'.id) = {}]_vars

\* C31: GeoSegment.add_asset with an asset that has no valid position or a
\* position outside the boundary returns false, with the GeoSegment's assets
\* and elements unchanged and no event emitted; only with a position inside
\* the boundary does the call run Segment.add_asset.
C31_RejectsBeforeStorage ==
    [][(op'.name = "seg_add" /\ segment_class[op'.seg] = "GeoSegment") =>
          LET s == op'.seg
              base == add_asset(assets[s], elements[s], op'.obj, next_eid,
                                asset_to_element)
          IN IF s \notin op'.pos
             THEN /\ ret' = "false"
                  /\ assets' = assets
                  /\ elements' = elements
                  /\ events' = <<>>
             ELSE /\ ret' = base.ret
                  /\ assets'[s] = base.assets
                  /\ elements'[s] = base.elements
                  /\ Len(events') = Len(base.events)]_vars

\* A GeoSegment that owns an asset has just refused another one.
C31_Witness ==
    /\ op.name = "seg_add"
    /\ segment_class[op.seg] = "GeoSegment"
    /\ op.seg \notin op.pos
    /\ ret = "false"
    /\ Len(assets[op.seg]) = 1
    /\ find_asset(assets[op.seg], op.id) = 0

\* The Element class the Board constructs for the asset.
FactoryClass(o) ==
    IF asset_to_element[AssetClass(o)] # "" THEN asset_to_element[AssetClass(o)]
    ELSE "Element"

\* C32: Board.element_factory(asset) either throws (the class is not
\* registered, or it does not accept the asset's type) or returns an
\* Element that is unpaired and whose next pair(asset) returns true.
C32_FactoryGuarantee ==
    [][/\ elem'.op.name = "factory" =>
             IF \/ FactoryClass(elem'.op.obj) \notin ElementClasses
                \/ ~Matches(FactoryClass(elem'.op.obj), AssetClass(elem'.op.obj))
             THEN elem'.ret = "throw"
             ELSE /\ elem'.ret = "done"
                  /\ elem'.e.eid # 0
                  /\ elem'.e.cls = FactoryClass(elem'.op.obj)
                  /\ elem'.e.asset = 0
       /\ (/\ elem.op.name = "factory" /\ elem.ret = "done"
           /\ elem'.op.name = "pair" /\ elem'.op.obj = elem.op.obj) =>
             /\ elem'.ret = "true"
             /\ ~elem'.op.test => elem'.e.asset = elem.op.obj]_vars

\* A TruckElement made by the factory for a Truck has paired with it.
C32_Witness ==
    /\ elem.op.name = "pair" /\ ~elem.op.test
    /\ elem.ret = "true"
    /\ elem.e.cls = "TruckElement"
    /\ elem.e.asset = elem.op.obj

LastEmitBefore(k) ==
    IF \E j \in 1..(k - 1) : steps'[j].emitted THEN now ELSE emit_time

\* C34: a call of the aggregator (for a Segment event, or without event)
\* that finds the buffer non-empty when at least min_event_seconds have
\* passed since the last Board 'change' notification was emitted emits a
\* notification itself; a call that found the buffer empty postpones nothing.
C34_EmitsWhenDue ==
    [][(now' = now /\ steps' # <<>> /\ op'.name \in {"board_add", "board_remove", "check"}) =>
          \A k \in DOMAIN steps' :
              (/\ Len(steps'[k].before) > 0 \/ steps'[k].event # NoChange
               /\ LastEmitBefore(k) # -1
               /\ now - LastEmitBefore(k) >= MinEventTicks)
                  => steps'[k].emitted]_vars

\* C35: when Segment.add_asset fails because Board.element_factory throws
\* (the mapped class is missing or refuses the asset's type), assets and
\* elements of the Segment are what they were before the call: the asset is
\* not owned without a paired Element and its id is free for a later
\* add_asset.
C35_FactoryFailureLeavesNoTrace ==
    [][(/\ op'.name = "seg_add"
        /\ ret' = "throw"
        /\ find_asset(assets[op'.seg], op'.id) = 0) =>
            /\ assets' = assets
            /\ elements' = elements
            /\ find_asset(assets'[op'.seg], op'.id) = 0]_vars

\* C36: no change is lost under re-entrancy: every Segment change event that
\* a listener of the Board's 'change' causes while it is being notified is,
\* when the operation is over, in the pending buffer or in a notification
\* emitted after the one that was being dispatched.
InBuffer(ev) == \E i \in DOMAIN changes : Key(changes[i]) = Key(ev)
InLaterNote(ev) ==
    \E k \in 2..Len(notes) :
        \E i \in DOMAIN notes[k].changes : Key(notes[k].changes[i]) = Key(ev)

C36_NothingLostReentrant ==
    \A i \in DOMAIN nested : InBuffer(nested[i]) \/ InLaterNote(nested[i])

\* The 'paired' and 'unpaired' events of the Element's last call, in order.
IsPairingEvent(ev) == ev.name \in {"paired", "unpaired"}
PairingEvents(el) == SelectSeq(el.emitted, IsPairingEvent)

\* C37: over any sequence of pair (real or dry-run), unpair and factory
\* creation the 'paired' and 'unpaired' events of an Element alternate,
\* starting with 'paired', and the Element is paired exactly when the last
\* of them was 'paired': a call emits at most one of them, 'paired' only on
\* an Element that was not paired and is paired afterwards, 'unpaired' only
\* on one that was paired and is not afterwards, and a call that emits
\* neither leaves the binding as it was.
C37_PairingEventsAlternate ==
    [][LET evs == PairingEvents(elem')
       IN /\ Len(evs) <= 1
          /\ Len(evs) = 0 => (elem'.e.asset = 0) = (elem.e.asset = 0)
          /\ Len(evs) = 1 /\ evs[1].name = "paired" =>
                elem.e.asset = 0 /\ elem'.e.asset # 0
          /\ Len(evs) = 1 /\ evs[1].name = "unpaired" =>
                elem.e.asset # 0 /\ elem'.e.asset = 0]_vars

\* The slots of segment s that hold a paired Element.
SlotsPaired(s) == {i \in DOMAIN elements[s] : elements[s][i].asset # 0}

\* C38: between the calls of add_asset and remove_asset, pairing is a
\* bijection between the assets a Segment owns and its paired Elements: the
\* asset of every paired Element is in the Segment's assets, no two Elements
\* are paired with the same asset, and there are as many paired Elements as
\* owned assets.
C38_PairingBijection ==
    \A s \in Segs :
        /\ \A i \in SlotsPaired(s) :
              \E j \in DOMAIN assets[s] : assets[s][j] = elements[s][i].asset
        /\ \A i, k \in SlotsPaired(s) :
              elements[s][i].asset = elements[s][k].asset => i = k
        /\ Cardinality(SlotsPaired(s)) = Len(assets[s])

\* C39: a successful write of a Notion emits exactly one 'changed' event,
\* also when the value written equals the one held, with the Notion's name,
\* the value held before as old_value (undefined when the Notion was never
\* written, whatever its default) and the value stored as new_value; a write
\* that fails emits none.
C39_OneChangedPerWrite ==
    [][ast'.op.name \in SingleWrites =>
          IF ast'.ret = "done"
          THEN /\ Len(ast'.emitted) = 1
               /\ ast'.emitted[1].property = ast'.op.attr
               /\ ast'.emitted[1].old_value = NotionOf(ast, ast'.op.attr).value
               /\ ast'.emitted[1].new_value = NotionOf(ast', ast'.op.attr).value
               /\ ast'.op.attr \notin ast.written =>
                     ast'.emitted[1].old_value = JsUndefined
          ELSE ast'.emitted = <<>>]_vars

\* A write of the value the Notion already held has emitted 'changed'.
C39_Witness ==
    /\ ast.op.name \in SingleWrites
    /\ ast.ret = "done"
    /\ Len(ast.emitted) = 1
    /\ ast.emitted[1].old_value = ast.emitted[1].new_value
    /\ ast.emitted[1].new_value.kind = "string"
    /\ NotionOf(ast, ast.op.attr).default_value # ast.emitted[1].old_value

\* C40: Segment.checksum is an integer in [0, 2^32): for every sequence of
\* summaries and nulls the value the getter computes with int32 operators
\* and returns through `>>> 0` equals the computation done in unsigned
\* arithmetic modulo 2^32.
IsUint32(h) == h[1] \in 0..(Word - 1) /\ h[2] \in 0..(Word - 1)

C40_ChecksumUnsigned ==
    probe.kind \notin {"none", "drawn"} =>
        /\ Int32Checksum(probe.a) = probe.ca
        /\ Int32Checksum(probe.b) = probe.cb
        /\ IsUint32(Int32Checksum(probe.a))
        /\ IsUint32(Int32Checksum(probe.b))

\* A checksum has been read whose hash was negative when the loop ended.
C40_Witness ==
    /\ probe.kind \notin {"none", "drawn"}
    /\ Int32Hash(probe.a)[1] < 0
    /\ Len(probe.a) > 1

====
